---- MODULE Spec2Model ----
(***************************************************************************)
(* Request coordination of the EasySearch modal (SearchModal.performSearch *)
(* and dispose), the SearchProvider it drives, and the literal scan of     *)
(* SearchProvider.searchInSingleDocument.                                  *)
(*                                                                         *)
(* Text is a sequence of characters, a character a one-element name.       *)
(* Columns and line numbers are 0-based as in the source; SubSeq is        *)
(* 1-based, so position p of the source is element p + 1 here.             *)
(***************************************************************************)
EXTENDS Integers, Sequences, FiniteSets, TLC

(***************************************************************************)
(* Bounds of the model.                                                    *)
(***************************************************************************)
MaxTextLen == 4
MaxQueryLen == 3

(***************************************************************************)
(* Characters.  "A" lower-cases to "a"; "Idot" is U+0130, whose            *)
(* String.prototype.toLowerCase is the two code units "i" U+0307; " " and  *)
(* "\n" are white space for String.prototype.trim, "\n" ends a line.       *)
(***************************************************************************)
Chars == {"a", "A", " ", "\n", "Idot"}

Texts(n) == UNION {[1..k -> Chars] : k \in 0..n}

LowerChar(c) ==
    CASE c = "A" -> <<"a">>
      [] c = "Idot" -> <<"i", "dot">>
      [] OTHER -> <<c>>

RECURSIVE toLowerCase(_)
toLowerCase(s) ==
    IF s = <<>> THEN <<>> ELSE LowerChar(Head(s)) \o toLowerCase(Tail(s))

IsWhiteSpace(c) == c \in {" ", "\n"}

RECURSIVE trimStart(_)
trimStart(s) ==
    IF s # <<>> /\ IsWhiteSpace(Head(s)) THEN trimStart(Tail(s)) ELSE s

RECURSIVE trimEnd(_)
trimEnd(s) ==
    IF s # <<>> /\ IsWhiteSpace(s[Len(s)])
    THEN trimEnd(SubSeq(s, 1, Len(s) - 1))
    ELSE s

trim(s) == trimEnd(trimStart(s))

\* hay.indexOf(needle, from): the least position >= from where needle
\* occurs in hay, -1 when there is none; the search starts at
\* min(from, hay.length), so an empty needle is always found.
StartsAt(hay, needle, at) ==
    /\ at >= 0
    /\ at + Len(needle) <= Len(hay)
    /\ SubSeq(hay, at + 1, at + Len(needle)) = needle

indexOf(hay, needle, from) ==
    LET start == IF from > Len(hay) THEN Len(hay) ELSE from
        hits == {at \in start..Len(hay) : StartsAt(hay, needle, at)}
    IN  IF hits = {} THEN -1
        ELSE CHOOSE at \in hits : \A other \in hits : at <= other

Max(a, b) == IF a >= b THEN a ELSE b

\* TextDocument.lineCount / lineAt(i).text: the text split at line ends,
\* the line ends dropped; a document always has at least one line.
RECURSIVE SplitLines(_, _)
SplitLines(s, cur) ==
    IF s = <<>> THEN <<cur>>
    ELSE IF Head(s) = "\n" THEN <<cur>> \o SplitLines(Tail(s), <<>>)
    ELSE SplitLines(Tail(s), Append(cur, Head(s)))

docLines(text) == SplitLines(text, <<>>)

\* The inner while (true) loop of searchInSingleDocument for one line.
RECURSIVE ScanLineFrom(_, _, _, _, _, _, _)
ScanLineFrom(uri, line, lineText, hay, needle, qLength, from) ==
    LET at == indexOf(hay, needle, from)
    IN  IF at = -1 THEN <<>>
        ELSE <<[uri |-> uri, line |-> line, start |-> at,
                end |-> at + qLength, detail |-> lineText]>>
             \o ScanLineFrom(uri, line, lineText, hay, needle, qLength,
                             at + Max(1, qLength))

ScanLine(uri, line, lineText, q, caseSens) ==
    LET needle == IF caseSens THEN q ELSE toLowerCase(q)
        hay == IF caseSens THEN lineText ELSE toLowerCase(lineText)
    IN  ScanLineFrom(uri, line, lineText, hay, needle, Len(q), 0)

\* A loop whose matches of a line come before those of the lines above it.
RECURSIVE ScanLinesReversed(_, _, _, _, _)
ScanLinesReversed(uri, lines, line, q, caseSens) ==
    IF line >= Len(lines) THEN <<>>
    ELSE ScanLinesReversed(uri, lines, line + 1, q, caseSens)
         \o ScanLine(uri, line, lines[line + 1], q, caseSens)

\* The for loop over the lines, from line index `line` on.
RECURSIVE ScanLines(_, _, _, _, _)
ScanLines(uri, lines, line, q, caseSens) ==
    IF line >= Len(lines) THEN <<>>
    ELSE ScanLine(uri, line, lines[line + 1], q, caseSens)
         \o ScanLines(uri, lines, line + 1, q, caseSens)

\* What searchInSingleDocument yields once the document is open: the
\* loop throws at its first line when the signal is aborted (the loop is
\* synchronous, so the signal cannot change while it runs).
Ok(results) == [kind |-> "ok", results |-> results]
Rejected(error) == [kind |-> "error", error |-> error]

\* A loop that never looks at the signal.
scanDocumentUnchecked(uri, text, query, caseSens, signalAborted) ==
    Ok(ScanLines(uri, docLines(text), 0, trim(query), caseSens))

scanDocument(uri, text, query, caseSens, signalAborted) ==
    LET q == trim(query)
    IN  IF signalAborted THEN Rejected("Search cancelled")
        ELSE Ok(ScanLines(uri, docLines(text), 0, q, caseSens))

(***************************************************************************)
(* The environment of the modal: the documents the host can open, the      *)
(* queries a 'search' message can carry, and the files the index holds     *)
(* once a pass has finished.                                               *)
(***************************************************************************)
Uris == {"u1", "u2"}

\* vscode.window.activeTextEditor when a command runs: a document or none.
Editors == {"u1", "undefined"}

DocText(uri) ==
    IF uri = "u1" THEN <<"a", "A">> ELSE <<"a", "\n", "a", "a">>

Queries == {<<"a">>, <<" ", "a">>, <<" ", " ">>, <<"a", "A">>}

MaxRequests == 2
MaxShows == 1
\* Toggles of the case-sensitive flag in a behaviour of SpecModal.
MaxToggles == 3
\* Toggles in the specifications of the search and of the webview.
MaxClicks == 1
MaxInits == 1
MaxCommits == 2
MaxPreviews == 1
MaxModals == 3
MaxCalls == 3

\* SearchModal.MAX_HISTORY
MAX_HISTORY == 20

VARIABLES
    \* SearchModal
    disposed,         \* dispose() has run
    currentSearchId,  \* SearchModal.currentSearchId
    abortController,  \* 0 for null, else the id of the request that made it
    aborted,          \* the ids of the requests whose AbortSignal is aborted
    currentResults,   \* SearchModal.currentResults
    options,          \* SearchModal.options
    initialEditor,    \* the document of SearchModal.initialEditor
    requests,         \* the performSearch calls, by id: arguments and position
    toggles,          \* the toggleCaseSensitive calls awaiting setCaseSensitive
    shows,            \* the number of createOrShow calls on the existing modal
    posted,           \* the messages given to panel.webview.postMessage
    inits,            \* the initializeSearch calls, each with its position
    commits,          \* the addToHistory calls and where each of them is
    previews,         \* the showFilePreview calls made for 'selectFile'
    history,          \* globalState['easySearch.searchHistory']
    \* The script of the webview
    searchInput,        \* searchInput.value
    lastQuery,          \* lastQuery
    isSearching,        \* isSearching
    searchInitialized,  \* searchInitialized
    webviewSearchId,    \* the script's currentSearchId
    webviewSearchAllFiles,  \* the script's searchAllFiles
    searchTimeout,      \* the timer searchTimeout holds, kind "none" if none
    rendered,           \* what resultsContainer shows
    sent,               \* the messages given to vscode.postMessage
    received,           \* the number of posted messages the script has handled
    edits,              \* the edits the user has made to the input
    scopeToggles,       \* the changes the user has made to the scope box
    \* The static SearchModal.currentModal and the modals constructed
    currentModal,     \* 0 for undefined, 1 for this modal, else a later one
    modals,           \* the number of SearchModal instances constructed
    disposedModals,   \* the later modals whose dispose has run
    \* SearchProvider and its TextSearcher
    providerOptions,  \* SearchProvider.options
    indexState,       \* "idle", "indexing", "ready", "failed" or "disposed"
    caseSensitive,    \* SearchState.caseSensitive
    excludeState,     \* SearchState.excludePatterns and excludeEnabled
    waitForReadyCalls,    \* the requests that called textSearcher.waitForReady
    textSearcherCalls,    \* the requests that called textSearcher.search
    \* The index of the TextSearcher and the pass that fills it
    workspace,      \* the workspace whose files the pass enumerates
    processed,      \* the candidates the pass has processed
    indexStore,     \* IndexStore: the number of entries of each sizeBytes
    sweeps,         \* the sweeps the MemoryJanitor has made
    \* searchInSingleDocument on its own
    scanText,       \* the text of the document handed to the scan
    scanQuery,      \* the query handed to the scan, as the caller passed it
    scanCase,       \* textSearcher.getCaseSensitive() when the scan runs
    scanSignal,     \* signal.aborted when the scan runs
    scanOut,        \* the outcome of the scan, kind "none" before it ran
    \* searchInSingleDocument iteration by iteration
    scanPc,         \* "start", "for" (loop head), "while" (inner loop), "done"
    scanLine,       \* the loop variable `line`
    scanFrom,       \* the scan position `from`
    scanIterations, \* the iterations of the inner loop made on this line
    scanResults     \* `results`

modalVars == <<disposed, currentSearchId, abortController, aborted,
               currentResults, options, initialEditor, requests, toggles,
               shows, posted>>
uiVars == <<inits, commits, previews, history>>
lifeVars == <<currentModal, modals, disposedModals>>
webviewVars == <<searchInput, lastQuery, isSearching, searchInitialized,
                 webviewSearchId, webviewSearchAllFiles, searchTimeout,
                 rendered, sent, received, edits, scopeToggles>>
providerVars == <<providerOptions, indexState, caseSensitive, excludeState,
                  waitForReadyCalls, textSearcherCalls>>
loopVars == <<scanPc, scanLine, scanFrom, scanIterations, scanResults>>
scanVars == <<scanText, scanQuery, scanCase, scanSignal, scanOut, loopVars>>
indexVars == <<workspace, processed, indexStore, sweeps>>
vars == <<modalVars, uiVars, lifeVars, providerVars, indexVars, scanVars,
          webviewVars>>

None == [kind |-> "none"]

(***************************************************************************)
(* Messages to the webview.                                                *)
(***************************************************************************)
Message(type) ==
    [type |-> type, searchId |-> 0, query |-> <<>>, results |-> <<>>,
     error |-> "", filePath |-> "", lineNumber |-> 0, flag |-> FALSE,
     history |-> <<>>, data |-> [patterns |-> <<>>, enabled |-> FALSE],
     progress |-> 0]

\* A searchResults message that leaves the request id out.
SearchResultsMsgWithoutId(results, query, searchId) ==
    [Message("searchResults") EXCEPT !.results = results, !.query = query]

SearchResultsMsg(results, query, searchId) ==
    [Message("searchResults") EXCEPT
        !.results = results, !.query = query, !.searchId = searchId]

SearchErrorMsg(error, query, searchId) ==
    [Message("searchError") EXCEPT
        !.error = error, !.query = query, !.searchId = searchId]

FilePreviewMsg(filePath, lineNumber, query) ==
    [Message("filePreview") EXCEPT
        !.filePath = filePath, !.lineNumber = lineNumber, !.query = query]

\* results.map(r => ({filePath, lineNumber: r.range.start.line + 1, ...}))
RECURSIVE MapResults(_)
MapResults(results) ==
    IF results = <<>> THEN <<>>
    ELSE <<[filePath |-> Head(results).uri,
            lineNumber |-> Head(results).line + 1,
            lineText |-> Head(results).detail,
            start |-> Head(results).start,
            end |-> Head(results).end]>> \o MapResults(Tail(results))

\* getInitialQuery: the word at the cursor of the editor, '' without an
\* editor.  The document u1 is the one word "aA".
getInitialQuery(editor) ==
    IF editor = "undefined" THEN <<>> ELSE <<"a", "A">>

(***************************************************************************)
(* Options objects: { currentFileOnly?, currentFileUri? } or undefined.    *)
(***************************************************************************)
NoOptions ==
    [present |-> FALSE, currentFileOnly |-> "undefined",
     currentFileUri |-> "undefined"]

\* The options argument of createOrShow, as activate passes it.
CommandOptions(currentFile) ==
    IF currentFile
    THEN [present |-> TRUE, currentFileOnly |-> "true",
          currentFileUri |-> "undefined"]
    ELSE NoOptions

\* a ?? b
Coalesce(a, b) == IF a # "undefined" THEN a ELSE b

\* The constructor: this.options = options ? { ...options } : undefined,
\* then currentFileUri from the editor in current-file mode.
ConstructedOptions(editor, opts) ==
    IF opts.present /\ opts.currentFileOnly = "true" /\ editor # "undefined"
    THEN [opts EXCEPT !.currentFileUri = editor]
    ELSE opts

\* createOrShow on the existing modal.
ReshownOptions(old, editor, opts) ==
    LET merged == IF opts.present
                  THEN [present |-> TRUE,
                        currentFileOnly |-> opts.currentFileOnly,
                        currentFileUri |-> old.currentFileUri]
                  ELSE old
    IN  IF opts.present /\ opts.currentFileOnly = "true" /\ editor # "undefined"
        THEN [present |-> TRUE, currentFileOnly |-> "true",
              currentFileUri |-> editor]
        ELSE merged

\* searchAllFiles is "true", "false" or "undefined".
EffectiveSearchAllFiles(searchAllFiles, opts) ==
    IF searchAllFiles # "undefined"
    THEN searchAllFiles = "true"
    ELSE ~(opts.currentFileOnly = "true")

\* The options performSearch passes to SearchProvider.search.
CallOptions(searchAllFiles, opts, editor) ==
    [currentFileOnly |-> ~EffectiveSearchAllFiles(searchAllFiles, opts),
     currentFileUri |-> Coalesce(opts.currentFileUri, editor)]

\* SearchProvider.search: the scope it decides on.
EffectiveUri(callOptions, provOptions) ==
    Coalesce(callOptions.currentFileUri, provOptions.currentFileUri)

SingleDocumentScope(callOptions, provOptions) ==
    /\ callOptions.currentFileOnly
    /\ EffectiveUri(callOptions, provOptions) # "undefined"

\* A catch that rethrows what it caught, whatever the signal says.
ProviderCatchRethrows(error, signalAborted) == Rejected(error)

\* The catch of SearchProvider.search.
ProviderCatch(error, signalAborted) ==
    IF signalAborted THEN Rejected("Search cancelled") ELSE Rejected(error)

(***************************************************************************)
(* TextSearcher.search over the finished index: a literal scan of every    *)
(* indexed file, empty for a query shorter than 2 characters.              *)
(***************************************************************************)
IndexedFiles == <<"u1", "u2">>

RECURSIVE IndexedScan(_, _, _)
IndexedScan(files, query, caseSens) ==
    IF files = <<>> THEN <<>>
    ELSE ScanLines(Head(files), docLines(DocText(Head(files))), 0, query,
                   caseSens)
         \o IndexedScan(Tail(files), query, caseSens)

textSearcherSearch(query, caseSens) ==
    IF Len(trim(query)) < 2 THEN <<>>
    ELSE IndexedScan(IndexedFiles, query, caseSens)

(***************************************************************************)
(* Init: the modal as createOrShow constructs it from a command, with or   *)
(* without an active editor.                                               *)
(***************************************************************************)
(***************************************************************************)
(* The index: IndexStore, the FileIndexer's pass over the candidates of a  *)
(* workspace, and the MemoryJanitor.  A file is known by its number in the *)
(* listing; the store keeps how many entries it holds of each sizeBytes.   *)
(***************************************************************************)
MAX_FILE_SIZE == 524288
MAX_INDEXED_FILES == 5000
BATCH_SIZE == 20

MaxSweeps == 1

\* The workspaces indexed: none of files, one of a few files of every
\* kind, and one of more files than the index admits, all of them
\* admissible.
Workspaces == {"empty", "small", "huge"}

CandidateCount(w) ==
    CASE w = "small" -> 45
      [] w = "huge" -> MAX_INDEXED_FILES + 30
      [] OTHER -> 0

SizeOf(w, n) ==
    IF w = "small"
    THEN CASE n % 5 = 0 -> MAX_FILE_SIZE + 1
           [] n % 5 = 1 -> MAX_FILE_SIZE
           [] OTHER -> 1000
    ELSE IF n % 2 = 0 THEN MAX_FILE_SIZE ELSE 1000

\* The path of the file has a node_modules segment.
InNodeModules(w, n) == w = "small" /\ n % 3 = 0

Sizes == {1000, MAX_FILE_SIZE, MAX_FILE_SIZE + 1}

EmptyStore == [size \in Sizes |-> 0]

StoreSize(store) == store[1000] + store[MAX_FILE_SIZE] + store[MAX_FILE_SIZE + 1]

Excluded(w, n, excludes) ==
    /\ excludes.enabled
    /\ \E i \in 1..Len(excludes.patterns) :
          excludes.patterns[i] = "node_modules" /\ InNodeModules(w, n)

\* An indexer that admits files whatever the number the store holds.
AdmitFileUncapped(store, w, n, excludes) ==
    IF SizeOf(w, n) > MAX_FILE_SIZE \/ Excluded(w, n, excludes) THEN store
    ELSE [store EXCEPT ![SizeOf(w, n)] = @ + 1]

\* One candidate: skipped when too large, excluded, or the store is full.
AdmitFile(store, w, n, excludes) ==
    IF SizeOf(w, n) > MAX_FILE_SIZE THEN store
    ELSE IF Excluded(w, n, excludes) THEN store
    ELSE IF StoreSize(store) >= MAX_INDEXED_FILES THEN store
    ELSE [store EXCEPT ![SizeOf(w, n)] = @ + 1]

RECURSIVE AdmitFiles(_, _, _, _, _)
AdmitFiles(store, w, from, to, excludes) ==
    IF from > to THEN store
    ELSE AdmitFiles(AdmitFile(store, w, from, excludes), w, from + 1, to,
                    excludes)

\* A percentage taken before the batch just processed is counted.
PercentBeforeBatch(done, total) ==
    LET percent == ((done - BATCH_SIZE) * 100) \div total
    IN  IF percent > 100 THEN 100 ELSE IF percent < 0 THEN 0 ELSE percent

\* percentComplete = processed / totalCandidates * 100, within [0, 100].
Percent(done, total) ==
    LET percent == (done * 100) \div total
    IN  IF percent > 100 THEN 100 ELSE IF percent < 0 THEN 0 ELSE percent

\* No pass is followed: the workspace has no candidates.
IndexIdle ==
    /\ workspace = "empty"
    /\ processed = 0
    /\ indexStore = EmptyStore
    /\ sweeps = 0

\* SearchState as TextSearcher loads it: no exclude patterns saved yet.
DefaultExcludes == [patterns |-> <<>>, enabled |-> TRUE]

\* What resultsContainer shows: "empty" (Start typing), "short" (Type at
\* least 2 characters), "loading" (Searching), "preparing" (Preparing
\* search index), "progress", "results" or "error".
Shown(kind) == [kind |-> kind, query |-> <<>>, results |-> <<>>]

NoTimer == [kind |-> "none", query |-> <<>>]

\* A message of the script to the extension.
WebviewMessage(type) ==
    [type |-> type, query |-> <<>>, searchAllFiles |-> "undefined"]

\* The script has run to its end: it shows 'Initializing search index...'
\* and has asked for initializeSearch.
WebviewLoaded ==
    /\ searchInput = <<>>
    /\ lastQuery = <<>>
    /\ isSearching = FALSE
    /\ searchInitialized = FALSE
    /\ webviewSearchId = 0
    /\ webviewSearchAllFiles = TRUE
    /\ searchTimeout = NoTimer
    /\ rendered = Shown("progress")
    /\ sent = <<WebviewMessage("initializeSearch")>>
    /\ received = 0
    /\ edits = 0
    /\ scopeToggles = 0

\* No handler but performSearch has run, the history is empty and this
\* modal is the one SearchModal.currentModal refers to.
HandlersIdle ==
    /\ inits = <<>>
    /\ commits = <<>>
    /\ previews = <<>>
    /\ currentModal = 1
    /\ modals = 1
    /\ disposedModals = {}
    /\ WebviewLoaded

UiIdle ==
    /\ HandlersIdle
    /\ history = <<>>

LoopIdle ==
    /\ scanPc = "start"
    /\ scanLine = 0
    /\ scanFrom = 0
    /\ scanIterations = 0
    /\ scanResults = <<>>

ScanIdle ==
    /\ scanText = <<>>
    /\ scanQuery = <<>>
    /\ scanCase = FALSE
    /\ scanSignal = FALSE
    /\ scanOut = None
    /\ LoopIdle

Init ==
    /\ disposed = FALSE
    /\ currentSearchId = 0
    /\ abortController = 0
    /\ aborted = {}
    /\ currentResults = <<>>
    /\ initialEditor \in Editors
    /\ \E currentFile \in BOOLEAN :
          options = ConstructedOptions(initialEditor,
                                       CommandOptions(currentFile))
    /\ providerOptions = options
    /\ requests = <<>>
    /\ toggles = <<>>
    /\ shows = 0
    /\ posted = <<>>
    /\ UiIdle
    /\ indexState = "idle"
    /\ caseSensitive = FALSE
    /\ excludeState = DefaultExcludes
    /\ waitForReadyCalls = {}
    /\ textSearcherCalls = {}
    /\ ScanIdle
    /\ IndexIdle

(***************************************************************************)
(* performSearch, up to its first await.                                   *)
(***************************************************************************)
Ids == 1..currentSearchId

\* A performSearch that forgets to abort the controller it replaces.
AbortPreviousSkipped(controller, signals) == signals

\* if (this.abortController) { this.abortController.abort(); ... }
AbortPrevious(controller, signals) ==
    IF controller # 0 THEN signals \cup {controller} ELSE signals

\* A waitForReady that scans again once a pass has finished.
waitForReadyRescans(state) ==
    IF state \in {"idle", "ready"} THEN "indexing" ELSE state

\* textSearcher.waitForReady(): the first call starts the indexing pass.
waitForReadyCalled(state) == IF state = "idle" THEN "indexing" ELSE state

performSearch(query, searchAllFiles) ==
    LET searchId == currentSearchId + 1
        callOptions == CallOptions(searchAllFiles, options, initialEditor)
        short == Len(query) < 2
        request == [query |-> query, callOptions |-> callOptions,
                    pc |-> IF short THEN "done" ELSE "waitForReady",
                    outcome |-> IF short THEN Ok(<<>>) ELSE None,
                    overlapped |-> FALSE]
        previous == IF currentSearchId = 0 THEN requests
                    ELSE [requests EXCEPT ![currentSearchId].overlapped =
                             requests[currentSearchId].pc
                                 \in {"waitForReady", "openTextDocument",
                                      "textSearcherSearch"}]
    IN  /\ ~disposed
        /\ currentSearchId < MaxRequests
        /\ aborted' = AbortPrevious(abortController, aborted)
        /\ currentSearchId' = searchId
        /\ abortController' = searchId
        /\ requests' = Append(previous, request)
        /\ IF short
           THEN /\ currentResults' = <<>>
                /\ posted' = posted \o <<SearchResultsMsg(<<>>, query, searchId),
                                         Message("clearPreview")>>
                /\ UNCHANGED <<indexState, waitForReadyCalls>>
           ELSE /\ waitForReadyCalls' = waitForReadyCalls \cup {searchId}
                /\ indexState' = waitForReadyCalled(indexState)
                /\ UNCHANGED <<currentResults, posted>>
        /\ UNCHANGED <<disposed, options, initialEditor, toggles, shows,
                       providerOptions, caseSensitive, excludeState,
                       textSearcherCalls,
                       scanVars, indexVars, uiVars, lifeVars, webviewVars>>

(***************************************************************************)
(* SearchProvider.search after textSearcher.waitForReady() has settled.    *)
(***************************************************************************)
Settle(id, outcome) ==
    requests' = [requests EXCEPT ![id].pc = "settled", ![id].outcome = outcome]

\* The scope the provider takes once the index is ready: "blank" is the
\* early return of searchInSingleDocument, before the document is opened.
ProviderRoute(callOptions, provOptions, query) ==
    IF SingleDocumentScope(callOptions, provOptions)
    THEN IF trim(query) = <<>> THEN "blank" ELSE "openTextDocument"
    ELSE "textSearcherSearch"

searchAfterReady(id) ==
    LET r == requests[id]
        route == ProviderRoute(r.callOptions, providerOptions, r.query)
    IN  /\ id \in Ids
        /\ r.pc = "waitForReady"
        /\ indexState = "ready"
        /\ IF route = "blank" THEN Settle(id, Ok(<<>>))
           ELSE requests' = [requests EXCEPT ![id].pc = route]
        /\ textSearcherCalls' = IF route = "textSearcherSearch"
                                THEN textSearcherCalls \cup {id}
                                ELSE textSearcherCalls
        /\ UNCHANGED <<disposed, currentSearchId, abortController, aborted,
                       currentResults, options, initialEditor, toggles, shows,
                       posted, providerOptions, indexState, caseSensitive,
                       excludeState, waitForReadyCalls, scanVars, indexVars, uiVars,
                       lifeVars, webviewVars>>

searchAfterReadyFailed(id) ==
    /\ id \in Ids
    /\ requests[id].pc = "waitForReady"
    /\ indexState \in {"failed", "disposed"}
    /\ Settle(id, ProviderCatch(IF indexState = "failed"
                                THEN "Indexing failed" ELSE "Search cancelled",
                                id \in aborted))
    /\ UNCHANGED <<disposed, currentSearchId, abortController, aborted,
                   currentResults, options, initialEditor, toggles, shows,
                   posted, providerVars, scanVars, indexVars, uiVars, lifeVars,
                   webviewVars>>

(***************************************************************************)
(* searchInSingleDocument after openTextDocument has settled.              *)
(***************************************************************************)
singleDocumentOutcome(uri, query, caseSens, signalAborted) ==
    LET out == scanDocument(uri, DocText(uri), query, caseSens, signalAborted)
    IN  IF out.kind = "ok" THEN out ELSE ProviderCatch(out.error, signalAborted)

searchDocumentOpened(id) ==
    LET r == requests[id]
        uri == EffectiveUri(r.callOptions, providerOptions)
    IN  /\ id \in Ids
        /\ r.pc = "openTextDocument"
        /\ Settle(id, singleDocumentOutcome(uri, r.query, caseSensitive,
                                            id \in aborted))
        /\ UNCHANGED <<disposed, currentSearchId, abortController, aborted,
                       currentResults, options, initialEditor, toggles, shows,
                       posted, providerVars, scanVars, indexVars, uiVars, lifeVars,
                       webviewVars>>

searchDocumentOpenFailed(id) ==
    /\ id \in Ids
    /\ requests[id].pc = "openTextDocument"
    /\ Settle(id, ProviderCatch("Cannot open document", id \in aborted))
    /\ UNCHANGED <<disposed, currentSearchId, abortController, aborted,
                   currentResults, options, initialEditor, toggles, shows,
                   posted, providerVars, scanVars, indexVars, uiVars, lifeVars,
                   webviewVars>>

(***************************************************************************)
(* TextSearcher.search settles: with the matches, or as cancelled when it  *)
(* saw the aborted signal at one of its per-file checks.                   *)
(***************************************************************************)
textSearcherSearchResolved(id) ==
    /\ id \in Ids
    /\ requests[id].pc = "textSearcherSearch"
    /\ Settle(id, Ok(textSearcherSearch(requests[id].query, caseSensitive)))
    /\ UNCHANGED <<disposed, currentSearchId, abortController, aborted,
                   currentResults, options, initialEditor, toggles, shows,
                   posted, providerVars, scanVars, indexVars, uiVars, lifeVars,
                   webviewVars>>

textSearcherSearchCancelled(id) ==
    /\ id \in Ids
    /\ requests[id].pc = "textSearcherSearch"
    /\ id \in aborted
    /\ Settle(id, ProviderCatch("Search cancelled", id \in aborted))
    /\ UNCHANGED <<disposed, currentSearchId, abortController, aborted,
                   currentResults, options, initialEditor, toggles, shows,
                   posted, providerVars, scanVars, indexVars, uiVars, lifeVars,
                   webviewVars>>

(***************************************************************************)
(* performSearch after SearchProvider.search has settled.                  *)
(***************************************************************************)
\* A continuation that delivers whatever settles, superseded or not.
IsCurrentAlways(searchId, current) == TRUE

\* The guards `searchId !== this.currentSearchId` of the try block and
\* `searchId === this.currentSearchId` of the catch block.

IsCurrent(searchId, current) == searchId = current

performSearchResumed(id) ==
    LET r == requests[id]
        mapped == MapResults(r.outcome.results)
    IN  /\ id \in Ids
        /\ r.pc = "settled"
        /\ IF ~IsCurrent(id, currentSearchId)
           THEN /\ requests' = [requests EXCEPT ![id].pc = "done"]
                /\ UNCHANGED <<currentResults, posted>>
           ELSE IF r.outcome.kind = "ok"
           THEN /\ currentResults' = mapped
                /\ IF mapped # <<>>
                   THEN /\ posted' = Append(posted,
                               SearchResultsMsg(mapped, r.query, id))
                        /\ requests' =
                               [requests EXCEPT ![id].pc = "showFilePreview"]
                   ELSE /\ posted' = posted \o
                               <<SearchResultsMsg(mapped, r.query, id),
                                 Message("clearPreview")>>
                        /\ requests' = [requests EXCEPT ![id].pc = "done"]
           ELSE /\ posted' = posted \o
                       <<SearchErrorMsg(r.outcome.error, r.query, id),
                         Message("clearPreview")>>
                /\ requests' = [requests EXCEPT ![id].pc = "done"]
                /\ UNCHANGED currentResults
        /\ UNCHANGED <<disposed, currentSearchId, abortController, aborted,
                       options, initialEditor, toggles, shows, providerVars,
                       scanVars, indexVars, uiVars, lifeVars, webviewVars>>

\* showFilePreview of the first result: the document opens and the preview
\* is posted, or opening fails and the error is only logged.
showFilePreviewOpened(id) ==
    /\ id \in Ids
    /\ requests[id].pc = "showFilePreview"
    /\ posted' = Append(posted,
                     FilePreviewMsg(requests[id].outcome.results[1].uri,
                                    requests[id].outcome.results[1].line + 1,
                                    requests[id].query))
    /\ requests' = [requests EXCEPT ![id].pc = "done"]
    /\ UNCHANGED <<disposed, currentSearchId, abortController, aborted,
                   currentResults, options, initialEditor, toggles, shows,
                   providerVars, scanVars, indexVars, uiVars, lifeVars,
                   webviewVars>>

showFilePreviewFailed(id) ==
    /\ id \in Ids
    /\ requests[id].pc = "showFilePreview"
    /\ requests' = [requests EXCEPT ![id].pc = "done"]
    /\ UNCHANGED <<disposed, currentSearchId, abortController, aborted,
                   currentResults, options, initialEditor, toggles, shows,
                   posted, providerVars, scanVars, indexVars, uiVars, lifeVars,
                   webviewVars>>

(***************************************************************************)
(* dispose: the provider (and its TextSearcher) is disposed, the current   *)
(* controller aborted; the message listener is among the disposables, so   *)
(* no handler starts afterwards.                                           *)
(***************************************************************************)
\* A dispose that also resets the request counter.
disposeBodyResetting ==
    /\ disposed' = TRUE
    /\ indexState' = "disposed"
    /\ aborted' = AbortPrevious(abortController, aborted)
    /\ currentModal' = 0
    /\ indexStore' = EmptyStore
    /\ currentSearchId' = 0
    /\ UNCHANGED <<abortController, currentResults, options,
                   initialEditor, requests, toggles, shows, posted,
                   providerOptions, caseSensitive, excludeState,
                   waitForReadyCalls, textSearcherCalls, scanVars,
                   workspace, processed, sweeps, uiVars, modals,
                   disposedModals, webviewVars>>

\* The body of SearchModal.dispose.
disposeBody ==
    /\ disposed' = TRUE
    /\ indexState' = "disposed"
    /\ aborted' = AbortPrevious(abortController, aborted)
    /\ currentModal' = 0
    /\ indexStore' = EmptyStore
    /\ UNCHANGED <<currentSearchId, abortController, currentResults, options,
                   initialEditor, requests, toggles, shows, posted,
                   providerOptions, caseSensitive, excludeState,
                   waitForReadyCalls, textSearcherCalls, scanVars,
                   workspace, processed, sweeps, uiVars, modals,
                   disposedModals, webviewVars>>

\* panel.onDidDispose: the panel was closed, by the user or by 'close'.
dispose ==
    /\ ~disposed
    /\ disposeBody

(***************************************************************************)
(* createOrShow while the modal exists: a command run again.               *)
(***************************************************************************)
createOrShow(editor, currentFile) ==
    LET next == ReshownOptions(options, editor, CommandOptions(currentFile))
    IN  /\ currentModal = 1
        /\ shows < MaxShows
        /\ shows' = shows + 1
        /\ initialEditor' = editor
        /\ options' = next
        /\ posted' = posted \o
               <<[Message("setInitialQuery") EXCEPT
                    !.query = getInitialQuery(editor),
                    !.flag = ~(next.currentFileOnly = "true")],
                 Message("focusSearch")>>
        /\ UNCHANGED <<disposed, currentSearchId, abortController, aborted,
                       currentResults, requests, toggles, providerVars,
                       scanVars, indexVars, uiVars, lifeVars, webviewVars>>

(***************************************************************************)
(* toggleCaseSensitive: the flag is set by setCaseSensitive, the webview   *)
(* is told once setCaseSensitive has resolved.                             *)
(***************************************************************************)
\* SearchState.caseSensitive once setCaseSensitive(newState) has been
\* called: the setter mutates the state, its promise settles later.
setCaseSensitive(newState) == newState

\* A toggle that also cancels the search in flight.
toggleCaseSensitiveAborting ==
    /\ ~disposed
    /\ Len(toggles) < MaxToggles
    /\ caseSensitive' = ~caseSensitive
    /\ toggles' = Append(toggles, [newState |-> ~caseSensitive, pc |-> "await"])
    /\ aborted' = AbortPrevious(abortController, aborted)
    /\ UNCHANGED <<disposed, currentSearchId, abortController,
                   currentResults, options, initialEditor, requests, shows,
                   posted, providerOptions, indexState, excludeState,
                   waitForReadyCalls, textSearcherCalls, scanVars, indexVars,
                   uiVars, lifeVars, webviewVars>>

toggleCaseSensitive ==
    LET newState == ~caseSensitive
    IN  /\ ~disposed
        /\ Len(toggles) < MaxToggles
        /\ caseSensitive' = setCaseSensitive(newState)
        /\ toggles' = Append(toggles, [newState |-> newState, pc |-> "await"])
        /\ UNCHANGED <<disposed, currentSearchId, abortController, aborted,
                       currentResults, options, initialEditor, requests, shows,
                       posted, providerOptions, indexState, excludeState,
                       waitForReadyCalls, textSearcherCalls, scanVars, indexVars,
                       uiVars, lifeVars, webviewVars>>

\* A continuation that writes the flag it computed before the await.
toggleCaseSensitiveResumedWriting(t) ==
    /\ t \in 1..Len(toggles)
    /\ toggles[t].pc = "await"
    /\ toggles' = [toggles EXCEPT ![t].pc = "done"]
    /\ caseSensitive' = toggles[t].newState
    /\ posted' = Append(posted, [Message("caseSensitiveChanged") EXCEPT
                                    !.flag = toggles[t].newState])
    /\ UNCHANGED <<disposed, currentSearchId, abortController, aborted,
                   currentResults, options, initialEditor, requests, shows,
                   providerOptions, indexState, excludeState,
                   waitForReadyCalls, textSearcherCalls, scanVars, indexVars,
                   uiVars, lifeVars, webviewVars>>

toggleCaseSensitiveResumed(t) ==
    /\ t \in 1..Len(toggles)
    /\ toggles[t].pc = "await"
    /\ toggles' = [toggles EXCEPT ![t].pc = "done"]
    /\ posted' = Append(posted, [Message("caseSensitiveChanged") EXCEPT
                                    !.flag = toggles[t].newState])
    /\ UNCHANGED <<disposed, currentSearchId, abortController, aborted,
                   currentResults, options, initialEditor, requests, shows,
                   providerVars, scanVars, indexVars, uiVars, lifeVars,
                   webviewVars>>

(***************************************************************************)
(* The indexing pass that the first waitForReady started.                  *)
(***************************************************************************)
indexingFinished ==
    /\ indexState = "indexing"
    /\ indexState' = "ready"
    /\ UNCHANGED <<modalVars, providerOptions, caseSensitive, excludeState,
                   waitForReadyCalls, textSearcherCalls, scanVars, indexVars, uiVars,
                   lifeVars, webviewVars>>

indexingFailed ==
    /\ indexState = "indexing"
    /\ indexState' = "failed"
    /\ UNCHANGED <<modalVars, providerOptions, caseSensitive, excludeState,
                   waitForReadyCalls, textSearcherCalls, scanVars, indexVars, uiVars,
                   lifeVars, webviewVars>>

(***************************************************************************)
(* initializeSearch: the webview asks for it when its script loads.        *)
(***************************************************************************)
initializeSearch ==
    /\ ~disposed
    /\ Len(inits) < MaxInits
    /\ inits' = Append(inits, "waitForReady")
    /\ indexState' = waitForReadyCalled(indexState)
    /\ UNCHANGED <<modalVars, commits, previews, history, lifeVars,
                   providerOptions, caseSensitive, excludeState,
                   waitForReadyCalls, textSearcherCalls, scanVars, indexVars,
                   webviewVars>>

\* A continuation that posts without waiting for the index.
initializeSearchReadyUnawaited(i) ==
    /\ i \in 1..Len(inits)
    /\ inits[i] = "waitForReady"
    /\ inits' = [inits EXCEPT ![i] = "getExcludePatterns"]
    /\ posted' = Append(posted, [Message("searchInitialized") EXCEPT
                                    !.flag = caseSensitive])
    /\ UNCHANGED <<disposed, currentSearchId, abortController, aborted,
                   currentResults, options, initialEditor, requests, toggles,
                   shows, commits, previews, history, lifeVars, providerVars,
                   scanVars, indexVars, webviewVars>>

initializeSearchReady(i) ==
    /\ i \in 1..Len(inits)
    /\ inits[i] = "waitForReady"
    /\ indexState = "ready"
    /\ inits' = [inits EXCEPT ![i] = "getExcludePatterns"]
    /\ posted' = Append(posted, [Message("searchInitialized") EXCEPT
                                    !.flag = caseSensitive])
    /\ UNCHANGED <<disposed, currentSearchId, abortController, aborted,
                   currentResults, options, initialEditor, requests, toggles,
                   shows, commits, previews, history, lifeVars, providerVars,
                   scanVars, indexVars, webviewVars>>

initializeSearchFailed(i) ==
    /\ i \in 1..Len(inits)
    /\ inits[i] = "waitForReady"
    /\ indexState \in {"failed", "disposed"}
    /\ inits' = [inits EXCEPT ![i] = "done"]
    /\ posted' = Append(posted, [Message("searchInitializationError") EXCEPT
                                    !.error = IF indexState = "failed"
                                              THEN "Indexing failed"
                                              ELSE "Search cancelled"])
    /\ UNCHANGED <<disposed, currentSearchId, abortController, aborted,
                   currentResults, options, initialEditor, requests, toggles,
                   shows, commits, previews, history, lifeVars, providerVars,
                   scanVars, indexVars, webviewVars>>

\* After getExcludePatterns: the patterns, then the history and the scope.
initializeSearchLoaded(i) ==
    /\ i \in 1..Len(inits)
    /\ inits[i] = "getExcludePatterns"
    /\ inits' = [inits EXCEPT ![i] = "done"]
    /\ posted' = posted \o
           <<[Message("excludePatternsLoaded") EXCEPT !.data = excludeState],
             [Message("historyLoaded") EXCEPT
                 !.history = history,
                 !.query = getInitialQuery(initialEditor),
                 !.flag = ~(options.currentFileOnly = "true")]>>
    /\ UNCHANGED <<disposed, currentSearchId, abortController, aborted,
                   currentResults, options, initialEditor, requests, toggles,
                   shows, commits, previews, history, lifeVars, providerVars,
                   scanVars, indexVars, webviewVars>>

(***************************************************************************)
(* saveExcludePatterns: SearchState is set by setExcludePatterns; nothing  *)
(* follows the await but the end of the handler.                           *)
(***************************************************************************)
ExcludePatterns == {<<"node_modules">>}

saveExcludePatterns(patterns, enabled) ==
    /\ ~disposed
    /\ excludeState' = [patterns |-> patterns, enabled |-> enabled]
    /\ UNCHANGED <<modalVars, uiVars, lifeVars, providerOptions, indexState,
                   caseSensitive, waitForReadyCalls, textSearcherCalls,
                   scanVars, indexVars, webviewVars>>

(***************************************************************************)
(* The search history: loadHistory, saveHistory and addToHistory           *)
(* ('commitHistory').  globalState.update sets the value it keeps in       *)
(* memory before it returns its promise, so a later loadHistory reads it.  *)
(***************************************************************************)
\* A filter that keeps every entry.
WithoutNothing(entries, q) == entries

\* history.filter(x => x !== q)
RECURSIVE Without(_, _)
Without(entries, q) ==
    IF entries = <<>> THEN <<>>
    ELSE IF Head(entries) = q THEN Without(Tail(entries), q)
    ELSE <<Head(entries)>> \o Without(Tail(entries), q)

\* A save that keeps the whole list.
SliceNothing(entries, n) == entries

\* history.slice(0, n)
Slice(entries, n) ==
    SubSeq(entries, 1, IF Len(entries) < n THEN Len(entries) ELSE n)

\* A commit that puts the query in front of the history as it is.
addToHistoryUnfiltered(query) ==
    LET q == trim(query)
        next == <<q>> \o history
    IN  /\ ~disposed
        /\ Len(commits) < MaxCommits
        /\ IF q = <<>>
           THEN /\ UNCHANGED history
                /\ commits' = Append(commits,
                                  [query |-> query, loaded |-> <<>>,
                                   next |-> <<>>, pc |-> "returned"])
           ELSE /\ history' = Slice(next, MAX_HISTORY)
                /\ commits' = Append(commits,
                                  [query |-> query, loaded |-> history,
                                   next |-> next, pc |-> "saveHistory"])
        /\ UNCHANGED <<modalVars, inits, previews, lifeVars, providerVars,
                       scanVars, indexVars, webviewVars>>

\* A commit of the query as it was typed.
addToHistoryUntrimmed(query) ==
    LET q == query
        next == <<q>> \o Without(history, q)
    IN  /\ ~disposed
        /\ Len(commits) < MaxCommits
        /\ IF q = <<>>
           THEN /\ UNCHANGED history
                /\ commits' = Append(commits,
                                  [query |-> query, loaded |-> <<>>,
                                   next |-> <<>>, pc |-> "returned"])
           ELSE /\ history' = Slice(next, MAX_HISTORY)
                /\ commits' = Append(commits,
                                  [query |-> query, loaded |-> history,
                                   next |-> next, pc |-> "saveHistory"])
        /\ UNCHANGED <<modalVars, inits, previews, lifeVars, providerVars,
                       scanVars, indexVars, webviewVars>>

addToHistory(query) ==
    LET q == trim(query)
        next == <<q>> \o Without(history, q)
    IN  /\ ~disposed
        /\ Len(commits) < MaxCommits
        /\ IF q = <<>>
           THEN /\ UNCHANGED history
                /\ commits' = Append(commits,
                                  [query |-> query, loaded |-> <<>>,
                                   next |-> <<>>, pc |-> "returned"])
           ELSE /\ history' = Slice(next, MAX_HISTORY)
                /\ commits' = Append(commits,
                                  [query |-> query, loaded |-> history,
                                   next |-> next, pc |-> "saveHistory"])
        /\ UNCHANGED <<modalVars, inits, previews, lifeVars, providerVars,
                       scanVars, indexVars, webviewVars>>

addToHistoryResumed(c) ==
    /\ c \in 1..Len(commits)
    /\ commits[c].pc = "saveHistory"
    /\ commits' = [commits EXCEPT ![c].pc = "done"]
    /\ posted' = Append(posted, [Message("historyUpdated") EXCEPT
                                    !.history = commits[c].next])
    /\ UNCHANGED <<disposed, currentSearchId, abortController, aborted,
                   currentResults, options, initialEditor, requests, toggles,
                   shows, inits, previews, history, lifeVars, providerVars,
                   scanVars, indexVars, webviewVars>>

(***************************************************************************)
(* 'selectFile': showFilePreview of the result the user selected.          *)
(***************************************************************************)
selectFile(filePath, lineNumber, query) ==
    /\ ~disposed
    /\ Len(previews) < MaxPreviews
    /\ previews' = Append(previews,
                       [filePath |-> filePath, lineNumber |-> lineNumber,
                        query |-> query, pc |-> "openTextDocument"])
    /\ UNCHANGED <<modalVars, inits, commits, history, lifeVars,
                   providerVars, scanVars, indexVars, webviewVars>>

selectFilePreviewOpened(p) ==
    /\ p \in 1..Len(previews)
    /\ previews[p].pc = "openTextDocument"
    /\ previews' = [previews EXCEPT ![p].pc = "done"]
    /\ posted' = Append(posted, FilePreviewMsg(previews[p].filePath,
                                              previews[p].lineNumber,
                                              previews[p].query))
    /\ UNCHANGED <<disposed, currentSearchId, abortController, aborted,
                   currentResults, options, initialEditor, requests, toggles,
                   shows, inits, commits, history, lifeVars, providerVars,
                   scanVars, indexVars, webviewVars>>

selectFilePreviewFailed(p) ==
    /\ p \in 1..Len(previews)
    /\ previews[p].pc = "openTextDocument"
    /\ previews' = [previews EXCEPT ![p].pc = "done"]
    /\ UNCHANGED <<modalVars, inits, commits, history, lifeVars,
                   providerVars, scanVars, indexVars, webviewVars>>

(***************************************************************************)
(* The modals of one extension host.  This modal is instance 1; of a later *)
(* instance only its existence and its disposal are kept.                  *)
(***************************************************************************)
Live(m) == IF m = 1 THEN ~disposed ELSE m \notin disposedModals

\* dispose() called on this modal after its dispose has run.
disposeAgain ==
    /\ disposed
    /\ disposeBody

\* createOrShow with no current modal: a panel and a SearchModal are made.
\* (With a later modal current, createOrShow reveals that modal: nothing
\* kept here changes.)
createOrShowNew ==
    /\ currentModal = 0
    /\ modals < MaxModals
    /\ modals' = modals + 1
    /\ currentModal' = modals + 1
    /\ UNCHANGED <<modalVars, uiVars, disposedModals, providerVars, scanVars, indexVars,
                   webviewVars>>

\* The panel of a later modal is closed: its dispose runs.
disposeOther(m) ==
    /\ m \in 2..modals
    /\ m \notin disposedModals
    /\ disposedModals' = disposedModals \cup {m}
    /\ currentModal' = 0
    /\ UNCHANGED <<modalVars, uiVars, modals, providerVars, scanVars, indexVars,
                   webviewVars>>

(***************************************************************************)
(* The indexing pass, batch by batch, and the janitor's sweep.             *)
(***************************************************************************)
\* One batch: the cancellation check at its start has passed (the searcher
\* is not disposed), up to BATCH_SIZE candidates are admitted or skipped,
\* and the progress event reaches the webview as 'searchProgress'.
indexBatch ==
    LET total == CandidateCount(workspace)
        to == IF processed + BATCH_SIZE < total
              THEN processed + BATCH_SIZE ELSE total
    IN  /\ indexState = "indexing"
        /\ processed < total
        /\ indexStore' = AdmitFiles(indexStore, workspace, processed + 1, to,
                                    excludeState)
        /\ processed' = to
        /\ posted' = Append(posted, [Message("searchProgress") EXCEPT
                                        !.progress = Percent(to, total)])
        /\ UNCHANGED <<disposed, currentSearchId, abortController, aborted,
                       currentResults, options, initialEditor, requests,
                       toggles, shows, uiVars, lifeVars, providerVars,
                       workspace, sweeps, scanVars, webviewVars>>

\* A tick of the MemoryJanitor: the entries it finds stale are evicted.
janitorSweep(stale) ==
    /\ indexState # "disposed"
    /\ sweeps < MaxSweeps
    /\ sweeps' = sweeps + 1
    /\ indexStore' = [size \in Sizes |->
                         IF size \in stale THEN 0 ELSE indexStore[size]]
    /\ UNCHANGED <<modalVars, uiVars, lifeVars, providerVars, workspace,
                   processed, scanVars, webviewVars>>

(***************************************************************************)
(* The script of the webview: the user's edits and clicks, its timers, and *)
(* its handler of the messages the modal posts.  The messages it sends     *)
(* reach the modal in the order sent; 'clearPreview', which the modal has  *)
(* no case for, is left out of `sent`.                                     *)
(***************************************************************************)
MaxEdits == 3
MaxScopeToggles == 1

\* What the user types into the search box.
Typed == {<<>>, <<"a">>, <<"a", "A">>, <<"a", "a">>}

SearchMsg(query) ==
    [WebviewMessage("search") EXCEPT
        !.query = query,
        !.searchAllFiles = IF webviewSearchAllFiles THEN "true" ELSE "false"]

\* The 'input' listener of searchInput, for the value the event carries.
inputListener(query) ==
    /\ lastQuery' = query
    /\ IF Len(query) = 0
       THEN /\ rendered' = Shown("empty")
            /\ searchTimeout' = NoTimer
       ELSE IF Len(query) < 2
       THEN /\ rendered' = Shown("short")
            /\ searchTimeout' = NoTimer
       ELSE /\ rendered' = Shown("loading")
            /\ searchTimeout' = [kind |-> "input", query |-> query]

\* The searches the user's actions so far can still cause, beyond those
\* sent: one for a timer that is set, one for each toggle not yet answered
\* by caseSensitiveChanged, one for the input event of historyLoaded.
Received(type) == {i \in 1..received : posted[i].type = type}

SentOf(type) == {i \in 1..Len(sent) : sent[i].type = type}

PendingToggles ==
    Cardinality(SentOf("toggleCaseSensitive"))
        - Cardinality(Received("caseSensitiveChanged"))

PendingInit ==
    IF Received("historyLoaded") \cup Received("searchInitializationError")
           = {}
    THEN 1 ELSE 0

\* The user edits the text of the search box.
inputEdited(value) ==
    /\ ~disposed
    /\ edits < MaxEdits
    /\ value # searchInput
    /\ Len(value) >= 2
          => webviewSearchId + 1 + PendingToggles + PendingInit <= MaxRequests
    /\ edits' = edits + 1
    /\ searchInput' = value
    /\ inputListener(value)
    /\ UNCHANGED <<isSearching, searchInitialized, webviewSearchId,
                   webviewSearchAllFiles, sent, received, scopeToggles, modalVars,
                   uiVars, lifeVars, providerVars, indexVars, scanVars>>

\* A debounce that sends whatever the state of the index.
debounceFiredUninitialized ==
    /\ searchTimeout.kind = "input"
    /\ searchTimeout' = NoTimer
    /\ IF ~isSearching /\ Len(searchTimeout.query) >= 2
       THEN /\ isSearching' = TRUE
            /\ webviewSearchId' = webviewSearchId + 1
            /\ sent' = Append(sent, SearchMsg(searchTimeout.query))
            /\ UNCHANGED rendered
       ELSE UNCHANGED <<isSearching, webviewSearchId, sent, rendered>>
    /\ UNCHANGED <<searchInput, lastQuery, searchInitialized, webviewSearchAllFiles,
                   received, edits, scopeToggles, modalVars, uiVars, lifeVars,
                   providerVars, indexVars, scanVars>>

\* The timer of the input listener fires, 150 ms after the edit.
debounceFired ==
    LET query == searchTimeout.query
    IN  /\ searchTimeout.kind = "input"
        /\ searchTimeout' = NoTimer
        /\ IF ~isSearching /\ searchInitialized /\ Len(query) >= 2
           THEN /\ isSearching' = TRUE
                /\ webviewSearchId' = webviewSearchId + 1
                /\ sent' = Append(sent, SearchMsg(query))
                /\ UNCHANGED rendered
           ELSE /\ rendered' = IF ~searchInitialized /\ Len(query) >= 2
                                THEN Shown("preparing") ELSE rendered
                /\ UNCHANGED <<isSearching, webviewSearchId, sent>>
        /\ UNCHANGED <<searchInput, lastQuery, searchInitialized,
                       webviewSearchAllFiles, received, edits, scopeToggles,
                       modalVars, uiVars, lifeVars, providerVars, indexVars,
                       scanVars>>

\* The user clicks the case-sensitive button.
caseSensitiveClicked ==
    /\ ~disposed
    /\ Cardinality(SentOf("toggleCaseSensitive")) < MaxClicks
    /\ webviewSearchId
           + (IF searchTimeout.kind # "none" THEN 1 ELSE 0)
           + PendingToggles + PendingInit + 1 <= MaxRequests
    /\ sent' = Append(sent, WebviewMessage("toggleCaseSensitive"))
    /\ UNCHANGED <<searchInput, lastQuery, isSearching, searchInitialized,
                   webviewSearchId, webviewSearchAllFiles, searchTimeout, rendered,
                   received, edits, scopeToggles, modalVars, uiVars, lifeVars,
                   providerVars, indexVars, scanVars>>

\* The user changes the all-files box: performNewSearch after 50 ms.
searchAllFilesToggled ==
    /\ ~disposed
    /\ scopeToggles < MaxScopeToggles
    /\ webviewSearchId + 1 + PendingToggles + PendingInit <= MaxRequests
    /\ scopeToggles' = scopeToggles + 1
    /\ webviewSearchAllFiles' = ~webviewSearchAllFiles
    /\ searchTimeout' = IF Len(trim(searchInput)) >= 2 /\ searchInitialized
                        THEN [kind |-> "performNewSearch", query |-> <<>>]
                        ELSE searchTimeout
    /\ UNCHANGED <<searchInput, lastQuery, isSearching, searchInitialized,
                   webviewSearchId, rendered, sent, received, edits,
                   modalVars, uiVars, lifeVars, providerVars, indexVars,
                   scanVars>>

\* The timer of the all-files box fires: performNewSearch().
performNewSearch ==
    /\ searchTimeout.kind = "performNewSearch"
    /\ searchTimeout' = NoTimer
    /\ IF ~isSearching /\ searchInitialized /\ Len(lastQuery) >= 2
       THEN /\ rendered' = Shown("loading")
            /\ isSearching' = TRUE
            /\ webviewSearchId' = webviewSearchId + 1
            /\ sent' = Append(sent, SearchMsg(lastQuery))
       ELSE UNCHANGED <<rendered, isSearching, webviewSearchId, sent>>
    /\ UNCHANGED <<searchInput, lastQuery, searchInitialized, webviewSearchAllFiles,
                   received, edits, scopeToggles, modalVars, uiVars, lifeVars,
                   providerVars, indexVars, scanVars>>

\* (!message.searchId || message.searchId >= currentSearchId)
\*     && lastQuery.length >= 2
AcceptsAnswer(message) ==
    /\ message.searchId = 0 \/ message.searchId >= webviewSearchId
    /\ Len(lastQuery) >= 2

\* window 'message' listener: the next message the modal has posted.
onMessage ==
    LET message == posted[received + 1]
        type == message.type
        initialQuery == IF message.query # <<>> /\ searchInput = <<>>
                        THEN message.query ELSE searchInput
    IN  /\ received < Len(posted)
        /\ received' = received + 1
        /\ IF type \in {"searchResults", "searchError"}
           THEN /\ IF AcceptsAnswer(message)
                   THEN /\ rendered' =
                               [kind |-> IF type = "searchResults"
                                         THEN "results" ELSE "error",
                                query |-> message.query,
                                results |-> message.results]
                        /\ isSearching' = FALSE
                   ELSE UNCHANGED <<rendered, isSearching>>
                /\ UNCHANGED <<searchInput, lastQuery, searchInitialized,
                               webviewSearchId, webviewSearchAllFiles, searchTimeout,
                               sent>>
           ELSE IF type = "searchProgress"
           THEN /\ rendered' = IF /\ Len(lastQuery) >= 2
                                  /\ isSearching \/ ~searchInitialized
                               THEN Shown("progress") ELSE rendered
                /\ UNCHANGED <<searchInput, lastQuery, isSearching,
                               searchInitialized, webviewSearchId,
                               webviewSearchAllFiles, searchTimeout, sent>>
           ELSE IF type = "searchInitialized"
           THEN /\ searchInitialized' = TRUE
                /\ rendered' = IF Len(lastQuery) = 0
                               THEN Shown("empty") ELSE rendered
                /\ UNCHANGED <<searchInput, lastQuery, isSearching,
                               webviewSearchId, webviewSearchAllFiles, searchTimeout,
                               sent>>
           ELSE IF type = "caseSensitiveChanged"
           THEN /\ IF Len(lastQuery) >= 2 /\ searchInitialized
                   THEN /\ rendered' = Shown("loading")
                        /\ isSearching' = TRUE
                        /\ webviewSearchId' = webviewSearchId + 1
                        /\ sent' = Append(sent, SearchMsg(lastQuery))
                   ELSE UNCHANGED <<rendered, isSearching, webviewSearchId,
                                    sent>>
                /\ UNCHANGED <<searchInput, lastQuery, searchInitialized,
                               webviewSearchAllFiles, searchTimeout>>
           ELSE IF type = "searchInitializationError"
           THEN /\ searchInitialized' = FALSE
                /\ rendered' = [Shown("error") EXCEPT !.query = lastQuery]
                /\ UNCHANGED <<searchInput, lastQuery, isSearching,
                               webviewSearchId, webviewSearchAllFiles, searchTimeout,
                               sent>>
           ELSE IF type = "setInitialQuery"
           THEN /\ searchInput' = message.query
                /\ webviewSearchAllFiles' = message.flag
                /\ inputListener(message.query)
                /\ UNCHANGED <<isSearching, searchInitialized,
                               webviewSearchId, sent>>
           ELSE IF type = "historyLoaded"
           THEN /\ webviewSearchAllFiles' = message.flag
                /\ searchInput' = initialQuery
                /\ inputListener(initialQuery)
                /\ UNCHANGED <<isSearching, searchInitialized,
                               webviewSearchId, sent>>
           ELSE UNCHANGED <<searchInput, lastQuery, isSearching,
                            searchInitialized, webviewSearchId,
                            webviewSearchAllFiles, searchTimeout, rendered, sent>>
        /\ UNCHANGED <<edits, scopeToggles, modalVars, uiVars, lifeVars,
                       providerVars, indexVars, scanVars>>

\* onDidReceiveMessage: the handlers start in the order the messages were
\* sent, each handler once.
Handled == currentSearchId + Len(toggles) + Len(inits)

NextSent(type) ==
    /\ Handled < Len(sent)
    /\ sent[Handled + 1].type = type

onInitializeSearch ==
    /\ NextSent("initializeSearch")
    /\ initializeSearch

onSearch ==
    /\ NextSent("search")
    /\ performSearch(sent[Handled + 1].query, sent[Handled + 1].searchAllFiles)

onToggleCaseSensitive ==
    /\ NextSent("toggleCaseSensitive")
    /\ toggleCaseSensitive

Next ==
    \/ \E query \in Queries, searchAllFiles \in {"true", "false"} :
          performSearch(query, searchAllFiles)
    \/ \E id \in Ids : searchAfterReady(id)
    \/ \E id \in Ids : searchAfterReadyFailed(id)
    \/ \E id \in Ids : searchDocumentOpened(id)
    \/ \E id \in Ids : searchDocumentOpenFailed(id)
    \/ \E id \in Ids : textSearcherSearchResolved(id)
    \/ \E id \in Ids : textSearcherSearchCancelled(id)
    \/ \E id \in Ids : performSearchResumed(id)
    \/ \E id \in Ids : showFilePreviewOpened(id)
    \/ \E id \in Ids : showFilePreviewFailed(id)
    \/ dispose
    \/ \E editor \in Editors, currentFile \in BOOLEAN :
          createOrShow(editor, currentFile)
    \/ Len(toggles) < MaxClicks /\ toggleCaseSensitive
    \/ \E t \in 1..Len(toggles) : toggleCaseSensitiveResumed(t)
    \/ indexingFinished
    \/ indexingFailed

Spec == Init /\ [][Next]_vars

(***************************************************************************)
(* SpecModal: every handler of the modal and the modals' life cycle, with  *)
(* two queries (one below the 2 characters, one that is searched for).     *)
(***************************************************************************)
ModalQueries == {<<"a">>, <<"a", "A">>}

\* The handlers started and the modals made so far.
Calls ==
    currentSearchId + Len(toggles) + shows + Len(inits) + Len(commits)
        + Len(previews) + (modals - 1)

StartHandler ==
    \/ \E query \in ModalQueries, searchAllFiles \in {"true", "false"} :
          performSearch(query, searchAllFiles)
    \/ createOrShowNew
    \/ \E editor \in Editors, currentFile \in BOOLEAN :
          createOrShow(editor, currentFile)
    \/ toggleCaseSensitive
    \/ initializeSearch
    \/ \E query \in ModalQueries : addToHistory(query)
    \/ \E query \in ModalQueries : selectFile("u1", 1, query)

NextModal ==
    \/ Calls < MaxCalls /\ StartHandler
    \/ \E id \in Ids : searchAfterReady(id)
    \/ \E id \in Ids : searchAfterReadyFailed(id)
    \/ \E id \in Ids : searchDocumentOpened(id)
    \/ \E id \in Ids : searchDocumentOpenFailed(id)
    \/ \E id \in Ids : textSearcherSearchResolved(id)
    \/ \E id \in Ids : textSearcherSearchCancelled(id)
    \/ \E id \in Ids : performSearchResumed(id)
    \/ \E id \in Ids : showFilePreviewOpened(id)
    \/ \E id \in Ids : showFilePreviewFailed(id)
    \/ dispose
    \/ disposeAgain
    \/ \E m \in 2..modals : disposeOther(m)
    \/ \E t \in 1..Len(toggles) : toggleCaseSensitiveResumed(t)
    \/ \E i \in 1..Len(inits) : initializeSearchReady(i)
    \/ \E i \in 1..Len(inits) : initializeSearchFailed(i)
    \/ \E i \in 1..Len(inits) : initializeSearchLoaded(i)
    \/ \E patterns \in ExcludePatterns, enabled \in BOOLEAN :
          saveExcludePatterns(patterns, enabled)
    \/ \E c \in 1..Len(commits) : addToHistoryResumed(c)
    \/ \E p \in 1..Len(previews) : selectFilePreviewOpened(p)
    \/ \E p \in 1..Len(previews) : selectFilePreviewFailed(p)
    \/ indexingFinished
    \/ indexingFailed

SpecModal == Init /\ [][NextModal]_vars

(***************************************************************************)
(* SpecWebview: the script of the webview and the modal it talks to, while *)
(* the panel is open.  What the user does is not forced; the timers, the   *)
(* delivery of messages and the steps of the modal happen when they can.   *)
(***************************************************************************)
UserWebview ==
    \/ \E value \in Typed : inputEdited(value)
    \/ caseSensitiveClicked
    \/ searchAllFilesToggled

SystemWebview ==
    \/ debounceFired
    \/ performNewSearch
    \/ onMessage
    \/ onInitializeSearch
    \/ onSearch
    \/ onToggleCaseSensitive
    \/ \E id \in Ids : searchAfterReady(id)
    \/ \E id \in Ids : searchDocumentOpened(id)
    \/ \E id \in Ids : searchDocumentOpenFailed(id)
    \/ \E id \in Ids : textSearcherSearchResolved(id)
    \/ \E id \in Ids : textSearcherSearchCancelled(id)
    \/ \E id \in Ids : performSearchResumed(id)
    \/ \E id \in Ids : showFilePreviewOpened(id)
    \/ \E id \in Ids : showFilePreviewFailed(id)
    \/ \E t \in 1..Len(toggles) : toggleCaseSensitiveResumed(t)
    \/ \E i \in 1..Len(inits) : initializeSearchReady(i)
    \/ \E i \in 1..Len(inits) : initializeSearchFailed(i)
    \/ \E i \in 1..Len(inits) : initializeSearchLoaded(i)
    \/ indexingFinished
    \/ indexingFailed

NextWebview ==
    \/ UserWebview
    \/ SystemWebview

SpecWebview == Init /\ [][NextWebview]_vars /\ WF_vars(SystemWebview)

(***************************************************************************)
(* Properties of the request coordination (under Spec).                    *)
(***************************************************************************)
InFlight(id) ==
    requests[id].pc \in {"waitForReady", "openTextDocument", "textSearcherSearch"}

IsAnswer(m) == m.type \in {"searchResults", "searchError"}

NewlyPosted == Len(posted) + 1 .. Len(posted')

\* C1: every searchResults or searchError message posted for a query of
\* length >= 2 carries the id that is the highest minted when it is posted,
\* and the continuation of a superseded request posts nothing at all.
C1_OnlyLatestDelivered ==
    [][/\ \A i \in NewlyPosted :
             (IsAnswer(posted'[i]) /\ Len(posted'[i].query) >= 2)
                 => posted'[i].searchId = currentSearchId'
       /\ \A id \in Ids :
             (requests[id].pc = "settled" /\ id # currentSearchId
                 /\ requests'[id].pc # "settled")
                 => posted' = posted]_vars

\* A superseded request has settled with matches and was dropped, and the
\* request that replaced it has delivered its own.
C1_Witness ==
    \E id \in Ids :
        /\ id < currentSearchId
        /\ requests[id].overlapped
        /\ requests[id].pc = "done"
        /\ requests[id].outcome.kind = "ok"
        /\ requests[id].outcome.results # <<>>
        /\ \E i \in 1..Len(posted) :
              /\ posted[i].type = "searchResults"
              /\ posted[i].searchId = currentSearchId
              /\ Len(posted[i].query) >= 2

AnswersFor(ids) ==
    {i \in 1..Len(posted) : IsAnswer(posted[i]) /\ posted[i].searchId \in ids}

\* C2: when request n was issued while the provider search of request
\* n - 1 was unresolved, request n - 1 never posts results or an error; and
\* once request n has resolved with no later request issued, exactly one
\* answer exists for the pair: the searchResults of n, with n's query, id
\* and results.
C2_SupersedingPair ==
    \A n \in 2..currentSearchId :
        requests[n - 1].overlapped =>
            /\ AnswersFor({n - 1}) = {}
            /\ (/\ currentSearchId = n
                /\ requests[n].pc \in {"showFilePreview", "done"}
                /\ requests[n].outcome.kind = "ok")
               => /\ Cardinality(AnswersFor({n - 1, n})) = 1
                  /\ \A i \in AnswersFor({n - 1, n}) :
                        /\ posted[i].type = "searchResults"
                        /\ posted[i].searchId = n
                        /\ posted[i].query = requests[n].query
                        /\ posted[i].results =
                               MapResults(requests[n].outcome.results)

\* Both requests of an overlapping pair have run to their end, each having
\* resolved with matches.
C2_Witness ==
    /\ currentSearchId = 2
    /\ requests[1].overlapped
    /\ requests[1].pc = "done"
    /\ requests[1].outcome.kind = "ok"
    /\ requests[1].outcome.results # <<>>
    /\ requests[2].pc = "done"
    /\ requests[2].outcome.kind = "ok"
    /\ requests[2].outcome.results # <<>>

\* C3: when the provider search of request n has been invoked, the signal
\* of every earlier request is aborted; at most one issued request has a
\* signal that is not aborted; and a new request can start whatever the
\* earlier one is doing.
C3_CancelBeforeStart ==
    /\ \A n \in waitForReadyCalls : \A m \in 1..(n - 1) : m \in aborted
    /\ Cardinality(Ids \ aborted) <= 1
    /\ (~disposed /\ currentSearchId < MaxRequests)
          => ENABLED (\E query \in Queries :
                         performSearch(query, "true"))

\* The provider search of a request was invoked while the request before it
\* was still unresolved.
C3_Witness ==
    \E n \in waitForReadyCalls :
        /\ n >= 2
        /\ InFlight(n)
        /\ InFlight(n - 1)
        /\ (n - 1) \in aborted

\* C4: no searchError message is posted for a search whose signal is
\* aborted (by a superseding performSearch or by dispose) when it is posted.
C4_AsClaimed ==
    [][\A i \in NewlyPosted :
           posted'[i].type = "searchError"
               => posted'[i].searchId \notin aborted']_vars

\* C5: a search requested with currentFileOnly = true never invokes the
\* whole-workspace search textSearcher.search.
C5_AsClaimed ==
    \A id \in textSearcherCalls : ~requests[id].callOptions.currentFileOnly

\* C6: a search with currentFileOnly and a document URI never waits for an
\* indexing pass and is not failed by one.
C6_AsClaimed ==
    \A id \in Ids :
        SingleDocumentScope(requests[id].callOptions, providerOptions)
            => /\ ~(requests[id].pc = "waitForReady" /\ indexState # "ready")
               /\ ~(/\ requests[id].outcome.kind = "error"
                    /\ requests[id].outcome.error = "Indexing failed")

\* C7: a query whose trimmed length is below 2 yields an empty result in
\* both scopes, without waitForReady and without the indexed search.
C7_AsClaimed ==
    \A id \in Ids :
        Len(trim(requests[id].query)) < 2
            => /\ id \notin waitForReadyCalls
               /\ id \notin textSearcherCalls
               /\ requests[id].outcome.kind = "ok"
                     => requests[id].outcome.results = <<>>

\* C12: when the single-document path of a request ends in a rejection,
\* the rejection is 'Search cancelled' if the request's signal is aborted at
\* that moment and the failure of opening the document otherwise; and when
\* performSearch resumes with a rejection while its signal is not aborted, it
\* posts a searchError carrying that failure, the request's query and its id.
C12_FailureVersusCancellation ==
    [][\A id \in Ids :
          /\ (/\ requests[id].pc = "openTextDocument"
              /\ requests'[id].pc = "settled"
              /\ requests'[id].outcome.kind = "error")
             => requests'[id].outcome.error =
                    IF id \in aborted THEN "Search cancelled"
                    ELSE "Cannot open document"
          /\ (/\ requests[id].pc = "settled"
              /\ requests'[id].pc # "settled"
              /\ requests[id].outcome.kind = "error"
              /\ id \notin aborted)
             => /\ Len(posted') = Len(posted) + 2
                /\ posted'[Len(posted) + 1].type = "searchError"
                /\ posted'[Len(posted) + 1].error = requests[id].outcome.error
                /\ posted'[Len(posted) + 1].query = requests[id].query
                /\ posted'[Len(posted) + 1].searchId = id]_vars

\* The first request was superseded while its document was being opened and
\* ended as cancelled; the document of the second could not be opened and
\* its failure was posted.
C12_Witness ==
    /\ currentSearchId = 2
    /\ requests[1].callOptions.currentFileOnly
    /\ requests[1].outcome = Rejected("Search cancelled")
    /\ requests[2].outcome = Rejected("Cannot open document")
    /\ \E i \in 1..Len(posted) :
          /\ posted[i].type = "searchError"
          /\ posted[i].error = "Cannot open document"
          /\ posted[i].searchId = 2

\* C27: the filePreview that performSearch produces for a request is
\* posted only while that request is the current one: no step posts the
\* preview of a request after a newer performSearch has been issued.
C27_AsClaimed ==
    [][\A id \in Ids :
          (/\ requests[id].pc = "showFilePreview"
           /\ requests'[id].pc = "done"
           /\ \E i \in NewlyPosted : posted'[i].type = "filePreview")
              => id = currentSearchId]_vars

(***************************************************************************)
(* Properties of the handlers and of the modals (under SpecModal).         *)
(***************************************************************************)
\* C14: a step of toggleCaseSensitive (the call or its continuation) or of
\* saveExcludePatterns leaves currentSearchId, the current AbortController,
\* the aborted signals and currentResults as they were, and posts neither
\* searchResults nor searchError.
C14_SettingsDoNotSearch ==
    [][(toggles' # toggles \/ excludeState' # excludeState)
          => /\ currentSearchId' = currentSearchId
             /\ abortController' = abortController
             /\ aborted' = aborted
             /\ currentResults' = currentResults
             /\ \A i \in NewlyPosted : ~IsAnswer(posted'[i])]_vars

\* A request is in flight, its signal not aborted, after the case flag was
\* toggled (the toggle has run to its end) and exclude patterns were saved.
C14_Witness ==
    /\ \E id \in Ids : InFlight(id) /\ id \notin aborted
    /\ Len(toggles) > 0
    /\ toggles[1].pc = "done"
    /\ excludeState # DefaultExcludes

\* C15: a step that starts a performSearch call (whatever the length of
\* its query) raises currentSearchId by exactly 1 in that same step, before
\* the call reaches an await, and the new request takes the new value as its
\* id; no other step changes currentSearchId.  Ids are therefore never shared.
C15_MonotonicToken ==
    [][/\ Len(requests') \in {Len(requests), Len(requests) + 1}
       /\ Len(requests') = Len(requests) + 1
             => currentSearchId' = currentSearchId + 1
       /\ Len(requests') = Len(requests)
             => currentSearchId' = currentSearchId
       /\ currentSearchId' = Len(requests')]_vars

\* Two requests were made, the first with a query below 2 characters, a
\* handler of another kind has run, and the modal has been disposed.
C15_Witness ==
    /\ currentSearchId = 2
    /\ Len(requests[1].query) < 2
    /\ Len(requests[2].query) >= 2
    /\ Len(toggles) + Len(inits) + Len(commits) + Len(previews) > 0
    /\ disposed

\* C18: the first dispose of the modal aborts the signal of the request in
\* flight and disposes the provider; and a dispose called on the modal once
\* it is disposed, in whatever state (a later modal may have been created),
\* changes nothing: no variable of the system, SearchModal.currentModal
\* among them.
C18_AsClaimed ==
    [][/\ (~disposed /\ disposed')
             => /\ abortController # 0 => abortController \in aborted'
                /\ indexState' = "disposed"
       /\ (disposed /\ disposeBody) => UNCHANGED vars]_vars

\* C29: once dispose has run, no step gives a message to
\* panel.webview.postMessage: the continuations of initializeSearch,
\* performSearch and showFilePreview that were suspended when dispose ran
\* end without posting.
C29_AsClaimed == [][disposed => posted' = posted]_vars

\* C30: the search-in-all-files command (createOrShow with no options)
\* always tells the webview the all-files scope: run on the existing modal,
\* the setInitialQuery it posts has searchAllFiles true, also when the
\* modal was opened in current-file mode; and the historyLoaded of a modal
\* that the command constructed has initialSearchAllFiles true.
C30_AsClaimed ==
    [][/\ \A editor \in Editors :
             createOrShow(editor, FALSE) => posted'[Len(posted) + 1].flag
       /\ \A i \in NewlyPosted :
             (/\ posted'[i].type = "historyLoaded"
              /\ shows = 0
              /\ ~options.present) => posted'[i].flag]_vars

Odd(n) == n % 2 = 1

PostedCount(type) ==
    Cardinality({i \in 1..Len(posted) : posted[i].type = type})

\* How many initializeSearch handlers are at a position.
InitsAt(pc) == Cardinality({i \in 1..Len(inits) : inits[i] = pc})

LiveModals == {m \in 1..modals : Live(m)}

WaitingSearches == {id \in Ids : requests[id].pc = "waitForReady"}
WaitingInits == {i \in 1..Len(inits) : inits[i] = "waitForReady"}

\* C22: a pass starts only when none has started before (so at most one is
\* ever in progress, and a finished pass is never followed by another); a
\* waitForReady made while the pass runs or after it has finished leaves
\* the state of the index as it is; no call suspended at waitForReady
\* resumes while the pass runs; and once the pass has finished every call
\* suspended at waitForReady, from initializeSearch or from a search, can
\* resume at once.
C22_SharedReadiness ==
    /\ [](/\ indexState = "indexing"
             => \A id \in WaitingSearches :
                   /\ ~ENABLED searchAfterReady(id)
                   /\ ~ENABLED searchAfterReadyFailed(id)
          /\ indexState = "indexing"
             => \A i \in WaitingInits :
                   /\ ~ENABLED initializeSearchReady(i)
                   /\ ~ENABLED initializeSearchFailed(i)
          /\ indexState = "ready"
             => /\ \A id \in WaitingSearches : ENABLED searchAfterReady(id)
                /\ \A i \in WaitingInits : ENABLED initializeSearchReady(i))
    /\ [][/\ indexState' = "indexing" => indexState \in {"idle", "indexing"}
          /\ indexState' = "idle" => indexState = "idle"
          /\ (/\ indexState \in {"indexing", "ready"}
              /\ \/ waitForReadyCalls' # waitForReadyCalls
                 \/ Len(inits') > Len(inits))
             => indexState' = indexState]_vars

\* The pass has finished with initializeSearch and two searches suspended
\* at waitForReady.
C22_Witness ==
    /\ indexState = "ready"
    /\ WaitingInits = {1}
    /\ WaitingSearches = {1, 2}

(***************************************************************************)
(* Properties of the webview script (under SpecWebview).                   *)
(***************************************************************************)
\* C25: whenever isSearching is true it eventually becomes false again,
\* whatever the user does, the modal answering or dropping every search it
\* receives.
C25_AsClaimed == isSearching ~> ~isSearching

\* The 'search' messages sent so far that carry the query.
SearchesFor(query) ==
    {i \in SentOf("search") : sent[i].query = query}

\* C26: if, with the search initialized, the text of the search box stops
\* changing at a query of 2 or more characters, then a 'search' for
\* exactly that text is sent and what the webview shows in the end is the
\* answer to a search for that text.
C26_AsClaimed ==
    \A query \in {typed \in Typed : Len(typed) >= 2} :
        <>[](searchInput = query /\ searchInitialized)
            => <>[](/\ SearchesFor(query) # {}
                    /\ rendered.kind \in {"results", "error"}
                    /\ rendered.query = query)

\* C28: every step in which the script sends a 'search' message (from the
\* debounce timer, from the caseSensitiveChanged handler or from
\* performNewSearch) is taken with searchInitialized true, the message
\* carries a query of 2 or more characters, and no
\* searchInitializationError has been handled before it.
C28_SearchOnlyWhenInitialized ==
    [][\A i \in (Len(sent) + 1)..Len(sent') :
           sent'[i].type = "search"
               => /\ searchInitialized
                  /\ Len(sent'[i].query) >= 2
                  /\ Received("searchInitializationError") = {}]_vars

\* Two searches have been sent, one of them by the handler of
\* caseSensitiveChanged, and the user has changed the all-files box.
C28_Witness ==
    /\ Cardinality(SentOf("search")) = 2
    /\ Received("caseSensitiveChanged") # {}
    /\ scopeToggles = 1

(***************************************************************************)
(* SpecScan: searchInSingleDocument as a function of the document text,    *)
(* the query and the case flag, over every text and query of the bounds.   *)
(***************************************************************************)
ModalFresh ==
    /\ disposed = FALSE
    /\ currentSearchId = 0
    /\ abortController = 0
    /\ aborted = {}
    /\ currentResults = <<>>
    /\ initialEditor = "u1"
    /\ options = ConstructedOptions("u1", CommandOptions(TRUE))
    /\ providerOptions = options
    /\ requests = <<>>
    /\ toggles = <<>>
    /\ shows = 0
    /\ posted = <<>>

ProviderReady ==
    /\ indexState = "ready"
    /\ caseSensitive = FALSE
    /\ excludeState = DefaultExcludes
    /\ waitForReadyCalls = {}
    /\ textSearcherCalls = {}

ModalIdle ==
    /\ ModalFresh
    /\ ProviderReady
    /\ UiIdle
    /\ IndexIdle

InitScan ==
    /\ ModalIdle
    /\ scanText \in Texts(MaxTextLen)
    /\ scanQuery \in Texts(MaxQueryLen)
    /\ scanCase \in BOOLEAN
    /\ scanSignal \in BOOLEAN
    /\ scanOut = None
    /\ LoopIdle

searchInSingleDocument ==
    /\ scanOut.kind = "none"
    /\ scanOut' = IF trim(scanQuery) = <<>> THEN Ok(<<>>)
                  ELSE scanDocument("u1", scanText, scanQuery, scanCase,
                                    scanSignal)
    /\ UNCHANGED <<scanText, scanQuery, scanCase, scanSignal, loopVars,
                   modalVars, providerVars, uiVars, lifeVars, indexVars,
                   webviewVars>>

NextScan == searchInSingleDocument

SpecScan == InitScan /\ [][NextScan]_vars

(***************************************************************************)
(* Properties of the scan (under SpecScan).  The occurrences a claim       *)
(* speaks of are defined here from the text and the query as the caller    *)
(* passed it, not from the scan.                                           *)
(***************************************************************************)
FoldChar(c, caseSens) == IF caseSens THEN <<c>> ELSE LowerChar(c)

\* The query occurs in the line at column p, compared character by
\* character, each folded unless the search is case-sensitive.
OccursAt(line, query, caseSens, p) ==
    /\ p + Len(query) <= Len(line)
    /\ \A i \in 1..Len(query) :
          FoldChar(line[p + i], caseSens) = FoldChar(query[i], caseSens)

\* The left-to-right non-overlapping occurrences from column `from` on.
RECURSIVE OccurrencesFrom(_, _, _, _)
OccurrencesFrom(line, query, caseSens, from) ==
    LET hits == {p \in from..Len(line) : OccursAt(line, query, caseSens, p)}
        at == CHOOSE p \in hits : \A other \in hits : p <= other
    IN  IF hits = {} THEN <<>>
        ELSE <<at>> \o OccurrencesFrom(line, query, caseSens,
                                       at + Max(1, Len(query)))

RECURSIVE RangesFrom(_, _, _, _)
RangesFrom(lines, line, query, caseSens) ==
    IF line >= Len(lines) THEN <<>>
    ELSE LET at == OccurrencesFrom(lines[line + 1], query, caseSens, 0)
         IN  [i \in 1..Len(at) |->
                 [line |-> line, start |-> at[i], end |-> at[i] + Len(query)]]
             \o RangesFrom(lines, line + 1, query, caseSens)

ReportedRanges ==
    [i \in 1..Len(scanOut.results) |->
        [line |-> scanOut.results[i].line,
         start |-> scanOut.results[i].start,
         end |-> scanOut.results[i].end]]

\* C8: for every line and every query (of the 2 or more characters that
\* performSearch lets through, here one with no white space around it) the
\* scan reports exactly the left-to-right non-overlapping occurrences of the
\* query in the line, each with the column range [at, at + length(query)).
C8_AsClaimed ==
    (/\ scanOut.kind = "ok"
     /\ Len(scanQuery) >= 2
     /\ trim(scanQuery) = scanQuery)
        => ReportedRanges =
               RangesFrom(docLines(scanText), 0, scanQuery, scanCase)

Normalised(s, caseSens) == IF caseSens THEN s ELSE toLowerCase(s)

ReportedAt(l, p) ==
    \E i \in 1..Len(scanOut.results) :
        /\ scanOut.results[i].line = l
        /\ scanOut.results[i].start = p

\* C9: for a query of 2 or more characters, a match is reported at a
\* position only if the line (lower-cased unless the search is
\* case-sensitive) contains the query (lower-cased likewise) there, every
\* such position is reported or lies inside a reported match to its left,
\* and every match carries the original line as its lineText.
C9_AsClaimed ==
    (scanOut.kind = "ok" /\ Len(scanQuery) >= 2)
        => LET lines == docLines(scanText)
               needle == Normalised(scanQuery, scanCase)
               Contains(l, p) ==
                   StartsAt(Normalised(lines[l + 1], scanCase), needle, p)
           IN  /\ \A l \in 0..(Len(lines) - 1) :
                     \A p \in 0..(2 * Len(lines[l + 1])) :
                        /\ ReportedAt(l, p) => Contains(l, p)
                        /\ Contains(l, p) =>
                              \E left \in 0..p :
                                  /\ ReportedAt(l, left)
                                  /\ left = p \/ p < left + Len(needle)
               /\ \A i \in 1..Len(scanOut.results) :
                     scanOut.results[i].detail =
                         lines[scanOut.results[i].line + 1]

\* The line that holds position p of the text.
LineOf(text, p) == Cardinality({i \in 1..p : text[i] = "\n"})

\* C10: a query with a line separator inside it yields exactly one match
\* for each of its occurrences in the document text, anchored at the line
\* of the occurrence's first character.
C10_AsClaimed ==
    (/\ scanOut.kind = "ok"
     /\ trim(scanQuery) = scanQuery
     /\ \E i \in 1..Len(scanQuery) : scanQuery[i] = "\n")
        => LET at == OccurrencesFrom(scanText, scanQuery, scanCase, 0)
           IN  [i \in 1..Len(scanOut.results) |-> scanOut.results[i].line]
                   = [i \in 1..Len(at) |-> LineOf(scanText, at[i])]

\* C11: for a query of 2 or more characters, a match is reported at a
\* position exactly when the text of the line at that position equals the
\* query as the caller passed it, white space at its ends included (each
\* character folded unless the search is case-sensitive): every reported
\* match spans such an occurrence, and every such occurrence is reported or
\* overlaps a reported one to its left.
C11_AsClaimed ==
    (scanOut.kind = "ok" /\ Len(scanQuery) >= 2)
        => LET lines == docLines(scanText)
           IN  /\ \A i \in 1..Len(scanOut.results) :
                     LET r == scanOut.results[i]
                     IN  /\ r.end - r.start = Len(scanQuery)
                         /\ OccursAt(lines[r.line + 1], scanQuery, scanCase,
                                     r.start)
               /\ \A l \in 0..(Len(lines) - 1) :
                     \A p \in 0..Len(lines[l + 1]) :
                        OccursAt(lines[l + 1], scanQuery, scanCase, p)
                            => \E left \in 0..p :
                                   /\ ReportedAt(l, left)
                                   /\ p < left + Len(scanQuery)

\* C13: a single-document scan whose signal is aborted when its lines are
\* about to be scanned rejects with 'Search cancelled' and yields no result
\* list; a scan whose signal is not aborted yields the complete list: every
\* place of every line where the (trimmed, case-normalised) needle starts is
\* reported or lies inside a reported match to its left.
C13_CompleteOrCancelled ==
    (scanOut.kind # "none" /\ trim(scanQuery) # <<>>)
        => IF scanSignal
           THEN scanOut = Rejected("Search cancelled")
           ELSE /\ scanOut.kind = "ok"
                /\ LET lines == docLines(scanText)
                       needle == Normalised(trim(scanQuery), scanCase)
                   IN  \A l \in 0..(Len(lines) - 1) :
                          \A p \in 0..(2 * Len(lines[l + 1])) :
                             StartsAt(Normalised(lines[l + 1], scanCase),
                                      needle, p)
                                 => \E left \in 0..p :
                                        /\ ReportedAt(l, left)
                                        /\ p < left + Len(needle)

\* The signal was aborted when a document of two lines, the needle in its
\* second, was about to be scanned, and the scan ended as cancelled.
C13_Witness ==
    /\ scanSignal
    /\ scanOut = Rejected("Search cancelled")
    /\ Len(docLines(scanText)) = 2
    /\ StartsAt(docLines(scanText)[2], trim(scanQuery), 0)
    /\ trim(scanQuery) # <<>>

\* C23: the matches of a single-document search are in strictly ascending
\* (line, start column) order: of two matches the later one in the list is
\* on a later line, or on the same line at a higher column, so no two
\* matches share a position.
C23_ResultsOrdered ==
    scanOut.kind = "ok"
        => \A i, j \in 1..Len(scanOut.results) :
              i < j
                  => \/ scanOut.results[i].line < scanOut.results[j].line
                     \/ /\ scanOut.results[i].line = scanOut.results[j].line
                        /\ scanOut.results[i].start < scanOut.results[j].start

\* Three matches: two on one line and one on a later line.
C23_Witness ==
    /\ scanOut.kind = "ok"
    /\ Len(scanOut.results) = 3
    /\ scanOut.results[1].line = scanOut.results[2].line
    /\ scanOut.results[2].line < scanOut.results[3].line

(***************************************************************************)
(* SpecLoop: searchInSingleDocument iteration by iteration, over documents *)
(* and queries that hold U+0130 and the two code units it lower-cases to.  *)
(***************************************************************************)
MaxDocLen == 3
MaxNeedleLen == 2

LoopChars == {"a", "i", "dot", "Idot", "\n"}

LoopTexts(n) == UNION {[1..k -> LoopChars] : k \in 0..n}

InitLoop ==
    /\ ModalIdle
    /\ scanText \in LoopTexts(MaxDocLen)
    /\ scanQuery \in LoopTexts(MaxNeedleLen)
    /\ scanCase \in BOOLEAN
    /\ scanSignal \in BOOLEAN
    /\ scanOut = None
    /\ LoopIdle

\* An advance by the length of the needle less one.
AdvanceShort(at, qLength) == at + qLength - 1

\* from = at + Math.max(1, q.length)
Advance(at, qLength) == at + Max(1, qLength)

\* Up to the loop: the early return for a blank query, else the document
\* is opened and `results` starts empty.
scanBegin ==
    /\ scanPc = "start"
    /\ IF trim(scanQuery) = <<>>
       THEN /\ scanOut' = Ok(<<>>)
            /\ scanPc' = "done"
       ELSE /\ scanPc' = "for"
            /\ UNCHANGED scanOut
    /\ scanLine' = 0
    /\ scanResults' = <<>>
    /\ UNCHANGED <<scanText, scanQuery, scanCase, scanSignal, scanFrom,
                   scanIterations, modalVars, providerVars, uiVars, lifeVars,
                   indexVars, webviewVars>>

\* The head of the for loop: the end of the document, the cancellation
\* check, or the start of the inner loop with from = 0.
scanLineHead ==
    /\ scanPc = "for"
    /\ IF scanLine >= Len(docLines(scanText))
       THEN /\ scanOut' = Ok(scanResults)
            /\ scanPc' = "done"
            /\ UNCHANGED <<scanFrom, scanIterations>>
       ELSE IF scanSignal
       THEN /\ scanOut' = Rejected("Search cancelled")
            /\ scanPc' = "done"
            /\ UNCHANGED <<scanFrom, scanIterations>>
       ELSE /\ scanPc' = "while"
            /\ scanFrom' = 0
            /\ scanIterations' = 0
            /\ UNCHANGED scanOut
    /\ UNCHANGED <<scanText, scanQuery, scanCase, scanSignal, scanLine,
                   scanResults, modalVars, providerVars, uiVars, lifeVars,
                   indexVars, webviewVars>>

\* One iteration of while (true): break and line++, or push and advance.
scanIteration ==
    LET q == trim(scanQuery)
        lineText == docLines(scanText)[scanLine + 1]
        needle == IF scanCase THEN q ELSE toLowerCase(q)
        hay == IF scanCase THEN lineText ELSE toLowerCase(lineText)
        at == indexOf(hay, needle, scanFrom)
    IN  /\ scanPc = "while"
        /\ scanIterations' = scanIterations + 1
        /\ IF at = -1
           THEN /\ scanPc' = "for"
                /\ scanLine' = scanLine + 1
                /\ UNCHANGED <<scanFrom, scanResults>>
           ELSE /\ scanResults' =
                       Append(scanResults,
                              [uri |-> "u1", line |-> scanLine, start |-> at,
                               end |-> at + Len(q), detail |-> lineText])
                /\ scanFrom' = Advance(at, Len(q))
                /\ UNCHANGED <<scanPc, scanLine>>
        /\ UNCHANGED <<scanText, scanQuery, scanCase, scanSignal, scanOut,
                       modalVars, providerVars, uiVars, lifeVars, indexVars,
                       webviewVars>>

NextLoop ==
    \/ scanBegin
    \/ scanLineHead
    \/ scanIteration

\* The loop is synchronous code: it runs on until it returns or throws.
SpecLoop == InitLoop /\ [][NextLoop]_vars /\ WF_vars(NextLoop)

(***************************************************************************)
(* Properties of the loop (under SpecLoop).                                *)
(***************************************************************************)
\* C24: every iteration of the inner loop that does not leave it raises
\* `from` by at least one; the loop has made at most length(line)
\* iterations whenever it is about to make one, so at most
\* length(line) + 1 in all; and the scan ends, for every document and
\* every query, a blank one (which never enters the loop) included.
C24_ScanTerminates ==
    /\ [][(scanPc = "while" /\ scanPc' = "while")
              => scanFrom' >= scanFrom + 1]_vars
    /\ [](scanPc = "while"
              => scanIterations <= Len(docLines(scanText)[scanLine + 1]))
    /\ <>(scanPc = "done")

\* The inner loop has just ended on a line of two characters after three
\* iterations: two matches and the search that found no more.
C24_Witness ==
    /\ scanPc = "for"
    /\ scanLine >= 1
    /\ Len(docLines(scanText)[scanLine]) = 2
    /\ scanIterations = 3
    /\ Len(scanResults) >= 2

(***************************************************************************)
(* SpecHistory: addToHistory over persisted histories of every length up   *)
(* to MAX_HISTORY.  Entry(n) is a text of its own for each n below 32; the *)
(* persisted history of length k is the one k commits of new texts leave.  *)
(***************************************************************************)
Bit(n, i) == (n \div (2 ^ (i - 1))) % 2

Entry(n) == [i \in 1..5 |-> IF Bit(n, i) = 1 THEN "A" ELSE "a"]

Histories == {[i \in 1..k |-> Entry(i)] : k \in 0..MAX_HISTORY}

\* The queries committed: new texts, one of them padded with white space,
\* texts the history may hold at its head, inside and at its end, and a
\* blank one.
HistoryQueries ==
    {Entry(0), <<" ">> \o Entry(21) \o <<" ">>, Entry(1),
     <<" ">> \o Entry(2), Entry(MAX_HISTORY), <<" ", " ">>, <<>>}

InitHistory ==
    /\ ModalFresh
    /\ ProviderReady
    /\ HandlersIdle
    /\ ScanIdle
    /\ IndexIdle
    /\ history \in Histories

NextHistory ==
    \/ \E query \in HistoryQueries : addToHistory(query)
    \/ \E c \in 1..Len(commits) : addToHistoryResumed(c)

SpecHistory == InitHistory /\ [][NextHistory]_vars

(***************************************************************************)
(* Properties of the history (under SpecHistory).                          *)
(***************************************************************************)
\* C16: after any sequence of addToHistory calls the persisted history
\* holds at most 20 entries.
C16_HistoryCapped == Len(history) <= 20

\* A commit of a new text on a full history: the list built had 21 entries
\* and 20 were persisted.
C16_Witness ==
    /\ Len(history) = 20
    /\ \E c \in 1..Len(commits) :
          /\ Len(commits[c].loaded) = 20
          /\ Len(commits[c].next) = 21

DuplicateFree(entries) ==
    \A i, j \in 1..Len(entries) : entries[i] = entries[j] => i = j

\* C17: a step of addToHistory(q) with non-blank q from a duplicate-free
\* history leaves a persisted history whose first entry is trim(q), in
\* which trim(q) occurs once and no entry twice, and whose other entries
\* are entries of the history before, in the order they had there.
C17_HistoryDeduplicated ==
    [][(/\ Len(commits') = Len(commits) + 1
        /\ commits'[Len(commits')].pc = "saveHistory"
        /\ DuplicateFree(history))
          => LET q == trim(commits'[Len(commits')].query)
             IN  /\ history' # <<>>
                 /\ history'[1] = q
                 /\ Cardinality({i \in 1..Len(history') : history'[i] = q}) = 1
                 /\ DuplicateFree(history')
                 /\ \A i, j \in 2..Len(history') :
                       i < j => \E a, b \in 1..Len(history) :
                                    /\ a < b
                                    /\ history[a] = history'[i]
                                    /\ history[b] = history'[j]]_vars

\* A text padded with white space was committed while the history held it
\* further down: it is now the first entry, the history as long as before.
C17_Witness ==
    \E c \in 1..Len(commits) :
        LET q == trim(commits[c].query)
        IN  /\ commits[c].query # q
            /\ \E i \in 2..Len(commits[c].loaded) : commits[c].loaded[i] = q
            /\ Len(commits[c].loaded) >= 3
            /\ c = Len(commits)
            /\ history[1] = q
            /\ Len(history) = Len(commits[c].loaded)

\* C34: addToHistory is idempotent: a step of addToHistory(q) taken when
\* the commit before it was of the same q leaves the persisted history as
\* that commit left it.
C34_Idempotent ==
    [][(/\ Len(commits') = Len(commits) + 1
        /\ Len(commits) >= 1
        /\ commits'[Len(commits')].query = commits[Len(commits)].query)
          => /\ commits'[Len(commits')].pc = "saveHistory"
                   => commits'[Len(commits')].loaded = history
             /\ history' = history]_vars

\* A text padded with white space and not in the full history was
\* committed twice: the first commit dropped the last entry, the second
\* loaded what the first persisted and persisted the same.
C34_Witness ==
    /\ Len(commits) = 2
    /\ commits[1].query = commits[2].query
    /\ trim(commits[1].query) # commits[1].query
    /\ Len(commits[1].loaded) = MAX_HISTORY
    /\ Len(commits[1].next) = MAX_HISTORY + 1
    /\ commits[2].loaded # commits[1].loaded
    /\ history = commits[2].loaded

\* C35: addToHistory with a query that is empty (or undefined, which
\* query ?? '' makes empty) or only white space returns at once: the
\* persisted history is left as it was, the step posts nothing and no
\* historyUpdated follows, the messages posted being one for each call
\* that saved.
C35_BlankQueryIgnored ==
    /\ [](/\ \A c \in 1..Len(commits) :
               trim(commits[c].query) = <<>> => commits[c].pc = "returned"
          /\ PostedCount("historyUpdated")
               = Cardinality({c \in 1..Len(commits) :
                                 commits[c].pc = "done"}))
    /\ [][(/\ Len(commits') = Len(commits) + 1
           /\ trim(commits'[Len(commits')].query) = <<>>)
              => /\ history' = history
                 /\ posted' = posted]_vars

\* A blank query was committed after a text: the text's historyUpdated is
\* the only one posted and the history is what the text's commit left.
C35_Witness ==
    /\ Len(commits) = 2
    /\ commits[1].pc = "done"
    /\ commits[2].pc = "returned"
    /\ commits[2].query = <<" ", " ">>
    /\ PostedCount("historyUpdated") = 1
    /\ history = Slice(commits[1].next, MAX_HISTORY)
    /\ Len(history) > 1

\* C32: the history carried by a historyUpdated message is the history
\* that the addToHistory call posting it persisted: the same entries in the
\* same order, 20 at most.
C32_AsClaimed ==
    [][\A c \in 1..Len(commits) :
          (commits[c].pc = "saveHistory" /\ commits'[c].pc = "done")
             => /\ posted'[Len(posted')].type = "historyUpdated"
                /\ posted'[Len(posted')].history
                      = Slice(commits[c].next, MAX_HISTORY)
                /\ Len(posted'[Len(posted')].history) <= MAX_HISTORY]_vars

(***************************************************************************)
(* SpecIndex: the pass over each workspace, started by the waitForReady    *)
(* of initializeSearch, with the janitor sweeping and the modal disposed   *)
(* at any moment, under the exclude patterns saved before.                 *)
(***************************************************************************)
SavedExcludes ==
    {DefaultExcludes, [patterns |-> <<"node_modules">>, enabled |-> TRUE]}

InitIndex ==
    /\ ModalFresh
    /\ UiIdle
    /\ ScanIdle
    /\ indexState = "idle"
    /\ caseSensitive = FALSE
    /\ excludeState \in SavedExcludes
    /\ waitForReadyCalls = {}
    /\ textSearcherCalls = {}
    /\ workspace \in Workspaces
    /\ processed = 0
    /\ indexStore = EmptyStore
    /\ sweeps = 0

NextIndex ==
    \/ initializeSearch
    \/ indexBatch
    \/ processed = CandidateCount(workspace) /\ indexingFinished
    \/ indexingFailed
    \/ \E stale \in (SUBSET Sizes) \ {{}} : janitorSweep(stale)
    \/ dispose

SpecIndex == InitIndex /\ [][NextIndex]_vars

(***************************************************************************)
(* Properties of the index (under SpecIndex).                              *)
(***************************************************************************)
\* C20: in every state every file the index holds has sizeBytes of at most
\* 512 KiB, and the index holds at most 5000 files.
C20_IndexBounds ==
    /\ \A size \in Sizes : indexStore[size] > 0 => size <= 512 * 1024
    /\ StoreSize(indexStore) <= 5000

\* The pass over the workspace of 5030 admissible files has ended: the
\* index is full, files of exactly 512 KiB among its entries.
C20_Witness ==
    /\ workspace = "huge"
    /\ indexState = "ready"
    /\ processed = CandidateCount("huge")
    /\ StoreSize(indexStore) = 5000
    /\ indexStore[MAX_FILE_SIZE] > 0

\* The percentComplete values of the progress events posted so far.
ProgressEvents(messages) ==
    LET events == SelectSeq(messages, LAMBDA m : m.type = "searchProgress")
    IN  [i \in 1..Len(events) |-> events[i].progress]

\* The number of progress events among the messages, and the
\* percentComplete of the last of them (0 when there is none).
ProgressCount(messages) ==
    Cardinality({i \in 1..Len(messages) :
                    messages[i].type = "searchProgress"})

RECURSIVE LastProgress(_, _)
LastProgress(messages, i) ==
    IF i = 0 THEN 0
    ELSE IF messages[i].type = "searchProgress" THEN messages[i].progress
    ELSE LastProgress(messages, i - 1)

\* C21: a pass takes its candidates in batches of 20 (the last one the
\* rest) and emits one progress event after each batch and none otherwise,
\* so that a pass over N > 20 candidates that has finished has emitted
\* exactly ceil(N / 20) events; every percentComplete is within [0, 100]
\* and not below the one emitted before it, and the last one of a finished
\* pass is 100.
C21_BatchProgress ==
    [][LET N == CandidateCount(workspace)
           new == {i \in NewlyPosted : posted'[i].type = "searchProgress"}
       IN  /\ processed' # processed
                 => /\ processed' = IF processed + 20 < N
                                    THEN processed + 20 ELSE N
                    /\ Cardinality(new) = 1
           /\ processed' = processed => new = {}
           /\ \A i \in new :
                 /\ posted'[i].progress \in 0..100
                 /\ posted'[i].progress >= LastProgress(posted, Len(posted))
           /\ ProgressCount(posted') = (processed' + 19) \div 20
           /\ (indexState' = "ready" /\ N > 20)
                 => /\ ProgressCount(posted') = (N + 19) \div 20
                    /\ LastProgress(posted', Len(posted')) = 100]_vars

\* The pass over the 45 candidates has finished after three batches, the
\* last of 5 files, with the events 44, 88 and 100.
C21_Witness ==
    /\ workspace = "small"
    /\ indexState = "ready"
    /\ ProgressEvents(posted) = <<44, 88, 100>>

====
